---- MODULE Spec2Model ----
(***************************************************************************)
(* EventChains runtime (src/src/eventchains.c): reference-counted values,  *)
(* the keyed context, and chain execution.                                 *)
(*                                                                         *)
(* Indices are 1-based here (C arrays are 0-based); find_entry returns 0   *)
(* where the C code returns -1.                                            *)
(***************************************************************************)
EXTENDS Integers, Sequences, FiniteSets, TLC

(***************************************************************************)
(* Bounds of the model.  The caps of eventchains.h (512 entries, 256-byte  *)
(* keys, 10 MiB) and INITIAL_CAPACITY (8) are scaled down so that TLC can  *)
(* fill a context; the code's relations between them are kept.             *)
(***************************************************************************)
EVENTCHAINS_MAX_CONTEXT_ENTRIES == 2

EVENTCHAINS_MAX_KEY_LENGTH == 2

INITIAL_CAPACITY == 1

MaxValues == 2

MaxRefs == 2

EVENTCHAINS_MAX_EVENTS == 2

EVENTCHAINS_MAX_MIDDLEWARE == 2

\* EVENTCHAINS_MAX_NAME_LENGTH (256) and EVENTCHAINS_MAX_ERROR_LENGTH (1024),
\* scaled down: the sizes of the name and message buffers, terminator included.
EVENTCHAINS_MAX_NAME_LENGTH == 3

EVENTCHAINS_MAX_ERROR_LENGTH == 3

\* The capacity the failures array of a ChainResult starts with (4 in
\* event_chain_execute), scaled down so that two failures fill it.
InitialFailureCapacity == 1

\* How often one call of a middleware calls next, at most.
MaxNextCalls == 2

(***************************************************************************)
(* Program constants.                                                      *)
(***************************************************************************)
GROWTH_FACTOR == 2

SizeofRefCountedValue == 24

SizeofContextEntry == 16

SizeofEventContext == 72

\* size_t has 64 bits; the model takes the largest integer TLC represents.
\* Reference counts stay far below either.
SIZE_MAX == 2147483647

\* The source's cap (10485760) exceeds by far what MAX_CONTEXT_ENTRIES live
\* entries with keys of MAX_KEY_LENGTH can account for, whatever the
\* capacity: a full context still passes the memory check of one more
\* insert.  The scaled cap keeps exactly that relation and no further slack.
EVENTCHAINS_MAX_CONTEXT_MEMORY ==
    SizeofEventContext
    + EVENTCHAINS_MAX_CONTEXT_ENTRIES * SizeofContextEntry
    + (EVENTCHAINS_MAX_CONTEXT_ENTRIES + 1)
        * (EVENTCHAINS_MAX_KEY_LENGTH + 1 + SizeofRefCountedValue)

NULL == "NULL"

\* Keys the callers pass to set: the empty key, three keys of length 1 and an
\* over-long key.
Keys == {"", "a", "b", "c", "dddd"}

\* Keys the callers pass to get, get_ref and remove, which do not look at the
\* length: a key that was never stored stands for every absent key.
LookupKeys == {"a", "b", "c", "dddd"}

\* Payload pointers the callers pass.
Payloads == {NULL, "p1", "p2"}

\* Cleanup callbacks the callers pass: none, an address below
\* MIN_FUNCTION_POINTER, and a real function.
CleanupFuncs == {NULL, "low_address", "free"}

\* The (payload, cleanup) pairs the callers pass.
ValueArgs == {<<"p1", "free">>, <<"p2", NULL>>, <<"p1", "low_address">>}

\* The (key, payload, cleanup) triples the callers pass to set: every
\* well-formed key with every valid pair, and one call for each way the
\* arguments can be refused.
SetArgs ==
    {<<key, a[1], a[2]>> : key \in {"a", "b", "c"},
                           a \in {<<"p1", "free">>, <<"p2", NULL>>}}
    \cup {<<"", "p1", "free">>, <<"dddd", "p1", "free">>, <<"a", "p1", "low_address">>}

VARIABLES
    values,              \* heap of RefCountedValue wrappers; a freed slot is reused by malloc
    held,                \* per wrapper: references owned by callers outside the context
    cleaned,             \* payloads the cleanup callback was invoked on during the last call
    entries,             \* context->entries (slots 1..capacity; those above count are stale)
    count,               \* context->count
    capacity,            \* context->capacity
    total_memory_bytes,  \* context->total_memory_bytes
    stored,              \* per key: the payload of its last successful set, while not removed or cleared
    last,                \* the last call and what it returned
    alive,               \* the context has not been destroyed
    reader,              \* a second thread calling get_ref: where it is, its key, the reference it got
    chain,               \* the EventChain
    exec,                \* the running event_chain_execute call: its loop index and its ChainResult
    threads,             \* per thread calling event_chain_execute on the chain: its call and its ChainResult
    lex,                 \* the Lexer of a running lex_source call
    tc,                  \* the TypeChecker of a running type_check_program call and its program
    comp                 \* a compilation: the chain of compiler events and its context

ctxVars == <<entries, count, capacity, total_memory_bytes, stored>>

concVars == <<alive, reader>>

chainVars == <<chain, exec, threads>>

compilerVars == <<lex, tc, comp>>

vars == <<values, held, cleaned, entries, count, capacity, total_memory_bytes, stored, last,
          alive, reader, chain, exec, threads, lex, tc, comp>>

NoEntry == [key |-> NULL, value |-> 0]

NoKeys == [k \in {} |-> NULL]

\* The record of successful sets with key set to value, and with key dropped.
With(f, key, value) == [k \in DOMAIN f \cup {key} |-> IF k = key THEN value ELSE f[k]]

Without(f, key) == [k \in DOMAIN f \ {key} |-> f[k]]

NoCall == [op |-> "none", err |-> "SUCCESS"]

\* A call and the error code it returned.
Call(op, err) == [op |-> op, err |-> err]

(***************************************************************************)
(* Utilities                                                               *)
(***************************************************************************)
safe_strnlen(str, maxlen) ==
    IF maxlen = 0 THEN 0 ELSE IF Len(str) < maxlen THEN Len(str) ELSE maxlen

is_valid_function_pointer(ptr) == ptr /= NULL /\ ptr /= "low_address"

(***************************************************************************)
(* Reference counting.  A heap h is [vals, log]: the wrappers, and the     *)
(* payloads cleanup was invoked on so far in the current call.             *)
(***************************************************************************)
Heap(vals) == [vals |-> vals, log |-> <<>>]

\* The slot malloc returns: a freed one if there is one, else a new one.
Malloc(vals) ==
    IF \E i \in 1..Len(vals) : vals[i].freed
    THEN CHOOSE i \in 1..Len(vals) :
             vals[i].freed /\ \A j \in 1..(i - 1) : ~vals[j].freed
    ELSE Len(vals) + 1

Store(seq, i, x) == IF i = Len(seq) + 1 THEN Append(seq, x) ELSE [seq EXCEPT ![i] = x]

\* ref_counted_value_create: whether it returns a wrapper (not NULL).
ref_counted_value_create_ok(cleanup) ==
    ~(cleanup /= NULL /\ ~is_valid_function_pointer(cleanup))

\* ref_counted_value_create: the heap with the new wrapper in slot Malloc(h.vals).
ref_counted_value_create(h, data, cleanup) ==
    [h EXCEPT !.vals = Store(h.vals, Malloc(h.vals),
                             [data |-> data, cleanup |-> cleanup, ref_count |-> 1,
                              freed |-> FALSE])]

\* A wrapper after free(value): its contents are no longer defined.
Freed == [data |-> NULL, cleanup |-> NULL, ref_count |-> 0, freed |-> TRUE]

\* Mutant of ref_counted_value_retain: the count is not incremented.
ref_counted_value_retain_lost(h, w) == h

\* The heap after ref_counted_value_retain(w).
ref_counted_value_retain(h, w) ==
    LET old_count == h.vals[w].ref_count IN
    IF old_count = SIZE_MAX
    THEN h
    ELSE [h EXCEPT !.vals[w].ref_count = old_count + 1]

\* Mutant of ref_counted_value_release: the cleanup runs at every release.
ref_counted_value_release_eager(h, w) ==
    LET old_count == h.vals[w].ref_count
        v == h.vals[w]
        log == IF v.cleanup /= NULL /\ v.data /= NULL THEN Append(h.log, v.data) ELSE h.log
    IN
    IF old_count = 1
    THEN [vals |-> [h.vals EXCEPT ![w] = Freed], log |-> log]
    ELSE [vals |-> [h.vals EXCEPT ![w].ref_count = old_count - 1], log |-> log]

\* The heap after ref_counted_value_release(w).
ref_counted_value_release(h, w) ==
    LET old_count == h.vals[w].ref_count
        v == h.vals[w]
    IN
    IF old_count = 1
    THEN [vals |-> [h.vals EXCEPT ![w] = Freed],
          log |-> IF v.cleanup /= NULL /\ v.data /= NULL
                  THEN Append(h.log, v.data) ELSE h.log]
    ELSE [h EXCEPT !.vals[w].ref_count = old_count - 1]

ref_counted_value_get_data(vals, w) == IF w = 0 THEN NULL ELSE vals[w].data

\* Release, in order, the values of slots 1..n of es.
RECURSIVE ReleaseAll(_, _, _)
ReleaseAll(h, es, n) ==
    IF n = 0 THEN h
    ELSE ref_counted_value_release(ReleaseAll(h, es, n - 1), es[n].value)

(***************************************************************************)
(* Context                                                                 *)
(***************************************************************************)
\* Mutant of find_entry: the loop starts at the second entry.
find_entry_skips_first(es, n, key) ==
    IF \E i \in 2..n : es[i].key = key
    THEN CHOOSE i \in 2..n : es[i].key = key /\ \A j \in 2..(i - 1) : es[j].key /= key
    ELSE 0

find_entry(es, n, key) ==
    IF \E i \in 1..n : es[i].key = key
    THEN CHOOSE i \in 1..n : es[i].key = key /\ \A j \in 1..(i - 1) : es[j].key /= key
    ELSE 0

\* Mutant of ensure_capacity: the check against MAX_CONTEXT_ENTRIES is missing.
ensure_capacity_uncapped(cnt, cap) ==
    IF cnt < cap THEN [err |-> "SUCCESS", capacity |-> cap]
    ELSE [err |-> "SUCCESS", capacity |-> cap * GROWTH_FACTOR]

\* The error code and the capacity ensure_capacity leaves.
ensure_capacity(cnt, cap) ==
    IF cnt < cap THEN [err |-> "SUCCESS", capacity |-> cap]
    ELSE IF cnt >= EVENTCHAINS_MAX_CONTEXT_ENTRIES
    THEN [err |-> "CAPACITY_EXCEEDED", capacity |-> cap]
    ELSE LET new_capacity == cap * GROWTH_FACTOR IN
         [err |-> "SUCCESS",
          capacity |-> IF new_capacity > EVENTCHAINS_MAX_CONTEXT_ENTRIES
                       THEN EVENTCHAINS_MAX_CONTEXT_ENTRIES ELSE new_capacity]

\* realloc keeps the old slots and adds uninitialised ones.
Grow(es, cap) == [i \in 1..cap |-> IF i \in DOMAIN es THEN es[i] ELSE NoEntry]

\* What remove adds to the memory counter.
RemoveMemoryDelta(additional) == 0

\* What create sets the memory counter to, and clear resets it to.
Baseline(cap) == SizeofEventContext + cap * SizeofContextEntry

\* The second thread before it has called anything.
ReaderIdle == [pc |-> "idle", key |-> NULL, ref |-> 0, raced |-> FALSE]

\* event_chain_create(mode): no events, no middlewares, no handler, not executing.
event_chain_create(mode) ==
    [events |-> <<>>, event_capacity |-> 0,
     middleware_count |-> 0, middleware_capacity |-> 0,
     fault_tolerance |-> mode, failure_handler |-> NULL, is_executing |-> 0]

\* "EventResult event_result;" of event_chain_execute before anything was
\* written to it: reading it yields any value.
Indeterminate ==
    [success |-> FALSE, error_code |-> "INDETERMINATE", error_message |-> <<>>]

\* The ChainResult before any event_chain_execute call has returned, and the
\* one a rejected call writes.  accepted, started, outcomes, callable,
\* stopped, out_of_memory and overflow are not fields of the code's
\* ChainResult: they keep what the frame of the call held at its return.
NoResult ==
    [accepted |-> FALSE, success |-> FALSE, failures |-> <<>>, started |-> 0,
     outcomes |-> <<>>, callable |-> Indeterminate,
     stopped |-> FALSE, out_of_memory |-> FALSE, overflow |-> FALSE]

\* No event_chain_execute call is running.  stack holds the frames of the
\* running calls, the innermost last; result is what the last call that
\* returned wrote to *result_ptr (NoResult while an accepted call runs).
NotExecuting == [stack |-> <<>>, result |-> NoResult]

\* The threads that call event_chain_execute on one chain.
Threads == {1, 2}

\* A thread that has not called event_chain_execute: at tells where the
\* thread is, "NONE", "RUNNING" (its call was accepted and has not returned),
\* "RETURNED" (from an accepted call), "REJECTED" (returned from a call whose
\* compare-and-exchange failed) or "CRASHED".
NotCalled == [stack |-> <<>>, result |-> NoResult, at |-> "NONE"]

\* event_context_create(), on an empty heap, with no other thread started.
InitContext ==
    /\ alive = TRUE
    /\ reader = ReaderIdle
    /\ values = <<>>
    /\ held = <<>>
    /\ cleaned = <<>>
    /\ entries = [i \in 1..INITIAL_CAPACITY |-> NoEntry]
    /\ count = 0
    /\ capacity = INITIAL_CAPACITY
    /\ total_memory_bytes = Baseline(INITIAL_CAPACITY)
    /\ stored = NoKeys
    /\ last = NoCall

\* No thread has called event_chain_execute yet.
NoThreads == [t \in Threads |-> NotCalled]

\* No compiler phase has been called.
NoCompiler ==
    /\ lex = [pc |-> "none"]
    /\ tc = [pc |-> "none"]
    /\ comp = [pc |-> "none"]

InitCtx ==
    /\ InitContext
    /\ chain = event_chain_create("STRICT")
    /\ exec = NotExecuting
    /\ threads = NoThreads
    /\ NoCompiler

\* event_context_set_with_cleanup(context, key, value, cleanup);
\* event_context_set passes cleanup = NULL.
event_context_set_with_cleanup(key, value, cleanup) ==
    LET key_len == safe_strnlen(key, EVENTCHAINS_MAX_KEY_LENGTH + 1)
        additional_memory == key_len + 1 + SizeofRefCountedValue
        idx == find_entry(entries, count, key)
        ref_value == Malloc(values)
        created == ref_counted_value_create(Heap(values), value, cleanup)
        cap == ensure_capacity(count, capacity)
    IN
    IF key_len = 0 \/ key_len > EVENTCHAINS_MAX_KEY_LENGTH THEN
        /\ last' = Call("set", "KEY_TOO_LONG")
        /\ cleaned' = <<>>
        /\ UNCHANGED <<values, held, ctxVars>>
    ELSE IF total_memory_bytes + additional_memory > EVENTCHAINS_MAX_CONTEXT_MEMORY THEN
        /\ last' = Call("set", "MEMORY_LIMIT_EXCEEDED")
        /\ cleaned' = <<>>
        /\ UNCHANGED <<values, held, ctxVars>>
    ELSE IF ~ref_counted_value_create_ok(cleanup) THEN
        /\ last' = Call("set", "OUT_OF_MEMORY")
        /\ cleaned' = <<>>
        /\ UNCHANGED <<values, held, ctxVars>>
    ELSE
        /\ held' = Store(held, ref_value, 0)
        /\ IF idx > 0 THEN
               \* update the existing entry
               LET h == ref_counted_value_release(created, entries[idx].value) IN
               /\ values' = h.vals
               /\ cleaned' = h.log
               /\ entries' = [entries EXCEPT ![idx].value = ref_value]
               /\ last' = Call("set", "SUCCESS")
               /\ stored' = With(stored, key, value)
               /\ UNCHANGED <<count, capacity, total_memory_bytes>>
           ELSE IF cap.err /= "SUCCESS" THEN
               LET h == ref_counted_value_release(created, ref_value) IN
               /\ values' = h.vals
               /\ cleaned' = h.log
               /\ last' = Call("set", cap.err)
               /\ UNCHANGED ctxVars
           ELSE
               /\ values' = created.vals
               /\ cleaned' = <<>>
               /\ capacity' = cap.capacity
               /\ entries' = [Grow(entries, cap.capacity) EXCEPT
                                 ![count + 1] = [key |-> key, value |-> ref_value]]
               /\ count' = count + 1
               /\ total_memory_bytes' = total_memory_bytes + additional_memory
               /\ last' = Call("set", "SUCCESS")
               /\ stored' = With(stored, key, value)

Set ==
    /\ \E a \in SetArgs : event_context_set_with_cleanup(a[1], a[2], a[3])
    /\ UNCHANGED <<concVars, chainVars, compilerVars>>

\* What event_context_get(context, key, &value_out) stores in value_out
\* (value_out is left alone when the key is not found).
value_out(key) ==
    LET idx == find_entry(entries, count, key) IN
    IF idx = 0 THEN "untouched"
    ELSE ref_counted_value_get_data(values, entries[idx].value)

\* event_context_get(context, key, &value_out)
event_context_get(key) ==
    LET idx == find_entry(entries, count, key) IN
    /\ last' = Call("get", IF idx = 0 THEN "NOT_FOUND" ELSE "SUCCESS")
    /\ cleaned' = <<>>
    /\ UNCHANGED <<values, held, ctxVars>>

Get ==
    /\ \E key \in LookupKeys : event_context_get(key)
    /\ UNCHANGED <<concVars, chainVars, compilerVars>>

\* Mutant of ShiftLeft: the loop starts one slot late.
ShiftLeft_late(es, idx, cnt) ==
    [i \in DOMAIN es |-> IF i >= idx + 1 /\ i <= cnt - 1 THEN es[i + 1]
                         ELSE IF i = cnt THEN NoEntry ELSE es[i]]

\* The entry array after the shift loop of event_context_remove.  Slot cnt
\* keeps a copy of the last entry (its key freed), which no code reads once
\* count is decremented: the model holds NoEntry there.
ShiftLeft(es, idx, cnt) ==
    [i \in DOMAIN es |-> IF i >= idx /\ i <= cnt - 1 THEN es[i + 1]
                         ELSE IF i = cnt THEN NoEntry ELSE es[i]]

\* event_context_remove(context, key)
event_context_remove(key) ==
    LET idx == find_entry(entries, count, key) IN
    IF idx = 0 THEN
        /\ last' = Call("remove", "NOT_FOUND")
        /\ cleaned' = <<>>
        /\ UNCHANGED <<values, held, ctxVars>>
    ELSE
        LET h == ref_counted_value_release(Heap(values), entries[idx].value) IN
        /\ values' = h.vals
        /\ cleaned' = h.log
        /\ entries' = ShiftLeft(entries, idx, count)
        /\ count' = count - 1
        /\ total_memory_bytes' = total_memory_bytes
               + RemoveMemoryDelta(Len(key) + 1 + SizeofRefCountedValue)
        /\ stored' = Without(stored, key)
        /\ last' = Call("remove", "SUCCESS")
        /\ UNCHANGED <<held, capacity>>

Remove ==
    /\ \E key \in LookupKeys : event_context_remove(key)
    /\ UNCHANGED <<concVars, chainVars, compilerVars>>

\* event_context_clear(context).  The slots keep their freed keys and
\* released values, which no code reads once count is 0: the model holds
\* NoEntry there.
event_context_clear ==
    LET h == ReleaseAll(Heap(values), entries, count) IN
    /\ values' = h.vals
    /\ cleaned' = h.log
    /\ entries' = [i \in DOMAIN entries |-> NoEntry]
    /\ count' = 0
    /\ total_memory_bytes' = Baseline(capacity)
    /\ stored' = NoKeys
    /\ last' = Call("clear", "SUCCESS")
    /\ UNCHANGED <<held, capacity>>

Clear == event_context_clear /\ UNCHANGED <<concVars, chainVars, compilerVars>>

NextCtx == Set \/ Get \/ Remove \/ Clear

SpecCtx == InitCtx /\ [][NextCtx]_vars

(***************************************************************************)
(* Properties of the context                                               *)
(***************************************************************************)
WellFormedKey(key) == Len(key) >= 1 /\ Len(key) <= EVENTCHAINS_MAX_KEY_LENGTH

\* The entries in use, in array order.
LiveEntries(es, n) == [i \in 1..n |-> es[i]]

\* The same with each value replaced by its payload.
LivePayloads(es, n, vals) ==
    [i \in 1..n |-> [key |-> es[i].key, data |-> vals[es[i].value].data]]

RemoveAt(seq, idx) ==
    [i \in 1..(Len(seq) - 1) |-> IF i < idx THEN seq[i] ELSE seq[i + 1]]

RECURSIVE SumOverhead(_, _)
SumOverhead(es, n) ==
    IF n = 0 THEN 0
    ELSE SumOverhead(es, n - 1) + Len(es[n].key) + 1 + SizeofRefCountedValue

\* C1: memory_usage is the baseline (that of creation, or the one clear
\* resets to for the current capacity) plus the overhead, key bytes + wrapper
\* bytes, of the entries currently stored.
C1_MemoryIsSumOfOverheads ==
    \E cap \in {INITIAL_CAPACITY, capacity} :
        total_memory_bytes = Baseline(cap) + SumOverhead(entries, count)

\* C3: with k holding v1 (a cleanup, a non-null payload, the context's
\* reference only), set(k, v2) leaves one entry for k, whose wrapper holds v2
\* with one reference, and runs v1's cleanup once during that set.
C3_OverwriteReleasesOld ==
    [][\A k \in Keys, a \in ValueArgs :
        LET idx == find_entry(entries, count, k)
            w1 == entries[idx].value
            w2 == entries'[idx].value
        IN (/\ idx > 0
            /\ values[w1].cleanup /= NULL /\ values[w1].data /= NULL
            /\ values[w1].ref_count = 1
            /\ a[2] /= "low_address"
            /\ event_context_set_with_cleanup(k, a[1], a[2]))
           => (/\ last'.err = "SUCCESS"
               /\ Cardinality({i \in 1..count' : entries'[i].key = k}) = 1
               /\ w2 /= w1
               /\ values'[w2].data = a[1]
               /\ values'[w2].ref_count = 1
               /\ values'[w1].freed
               /\ cleaned' = <<values[w1].data>>)
      ]_vars

\* C4: a set rejected for MAX_CONTEXT_ENTRIES or MAX_CONTEXT_MEMORY changes
\* nothing and invokes no cleanup, neither on a stored value nor on the
\* payload passed in.
C4_RejectedSetHasNoEffect ==
    [][(last'.op = "set" /\ last'.err \in {"CAPACITY_EXCEEDED", "MEMORY_LIMIT_EXCEEDED"})
        => (/\ UNCHANGED <<entries, count, capacity, total_memory_bytes, stored>>
            /\ cleaned' = <<>>)
      ]_vars

\* C5: the stored keys are pairwise distinct, count is the number of keys
\* set and not removed or cleared since, and count <= MAX_CONTEXT_ENTRIES.
C5_KeysDistinctCountBounded ==
    /\ \A i, j \in 1..count : entries[i].key = entries[j].key => i = j
    /\ {entries[i].key : i \in 1..count} = DOMAIN stored
    /\ count = Cardinality(DOMAIN stored)
    /\ count <= EVENTCHAINS_MAX_CONTEXT_ENTRIES

C5_Witness ==
    /\ count = EVENTCHAINS_MAX_CONTEXT_ENTRIES
    /\ last = Call("set", "CAPACITY_EXCEEDED")

\* C6: with MAX_CONTEXT_ENTRIES keys stored, a set of a well-formed key that
\* is not present fails with CAPACITY_EXCEEDED and leaves every stored entry
\* in place with its key and payload.
C6_FullContextRejectsNewKey ==
    [][\A k \in Keys, a \in ValueArgs :
        (/\ count = EVENTCHAINS_MAX_CONTEXT_ENTRIES
         /\ WellFormedKey(k)
         /\ find_entry(entries, count, k) = 0
         /\ a[2] /= "low_address"
         /\ event_context_set_with_cleanup(k, a[1], a[2]))
        => (/\ last'.err = "CAPACITY_EXCEEDED"
            /\ count' = count
            /\ LivePayloads(entries', count', values')
                   = LivePayloads(entries, count, values))
      ]_vars

\* C7: after a successful set(k, v), get(k) succeeds with payload v, and keeps
\* doing so across sets and removes of other keys, until k is set again,
\* removed or cleared.
C7_GetReturnsWhatWasSet ==
    \A k \in DOMAIN stored :
        find_entry(entries, count, k) > 0 /\ value_out(k) = stored[k]

C7_Witness ==
    /\ last = Call("remove", "SUCCESS")
    /\ \E k \in DOMAIN stored : stored[k] = "p1" /\ value_out(k) = "p1"

LiveValues(vals) == {w \in 1..Len(vals) : ~vals[w].freed}

\* value = ref_counted_value_create(data, cleanup), called by a caller
ValueCreate ==
    \E data \in Payloads, cleanup \in CleanupFuncs :
        /\ Cardinality(LiveValues(values)) < MaxValues
        /\ cleaned' = <<>>
        /\ IF ref_counted_value_create_ok(cleanup)
           THEN /\ values' = ref_counted_value_create(Heap(values), data, cleanup).vals
                /\ held' = Store(held, Malloc(values), 1)
                /\ last' = Call("create", "SUCCESS")
           ELSE /\ last' = Call("create", "NULL_POINTER")
                /\ UNCHANGED <<values, held>>
        /\ UNCHANGED <<ctxVars, concVars, chainVars, compilerVars>>

\* ref_counted_value_retain(value), called by an owner of a reference
ValueRetain(w) ==
    /\ held[w] > 0
    /\ values[w].ref_count < MaxRefs
    /\ values' = ref_counted_value_retain(Heap(values), w).vals
    /\ held' = [held EXCEPT ![w] = @ + 1]
    /\ cleaned' = <<>>
    /\ last' = Call("retain", IF values[w].ref_count = SIZE_MAX THEN "OVERFLOW" ELSE "SUCCESS")
    /\ UNCHANGED ctxVars

\* ref_counted_value_release(value), called by an owner of a reference
ValueRelease(w) ==
    LET h == ref_counted_value_release(Heap(values), w) IN
    /\ held[w] > 0
    /\ values' = h.vals
    /\ cleaned' = h.log
    /\ held' = [held EXCEPT ![w] = @ - 1]
    /\ last' = Call("release", "SUCCESS")
    /\ UNCHANGED ctxVars

Retain == (\E w \in 1..Len(values) : ValueRetain(w)) /\ UNCHANGED <<concVars, chainVars, compilerVars>>

Release == (\E w \in 1..Len(values) : ValueRelease(w)) /\ UNCHANGED <<concVars, chainVars, compilerVars>>

NextValue == ValueCreate \/ Retain \/ Release

SpecValue == InitCtx /\ [][NextValue]_vars

\* C2: a live wrapper holds as many references as its owners hold (so each
\* of them can still release, and the last release finds the count at 1), a
\* freed one holds none (so nobody releases it again); a release that finds
\* the count at 1 frees the wrapper and runs its cleanup, if it has one and a
\* non-null payload, once on the payload; any other release only decrements;
\* and no call other than a release frees a wrapper or runs a cleanup.
C2_CleanupExactlyOnceAtZero ==
    /\ [](\A w \in 1..Len(values) :
            IF values[w].freed THEN held[w] = 0
            ELSE values[w].ref_count = held[w] /\ held[w] >= 1)
    /\ [][/\ \A w \in LiveValues(values) :
                ValueRelease(w) =>
                    /\ \A w2 \in LiveValues(values) \ {w} : values'[w2] = values[w2]
                    /\ IF values[w].ref_count = 1
                       THEN /\ values'[w].freed
                            /\ cleaned' = IF values[w].cleanup /= NULL /\ values[w].data /= NULL
                                          THEN <<values[w].data>> ELSE <<>>
                       ELSE /\ values'[w] = [values[w] EXCEPT !.ref_count = @ - 1]
                            /\ cleaned' = <<>>
          /\ (~\E w \in LiveValues(values) : ValueRelease(w)) =>
                /\ cleaned' = <<>>
                /\ \A w \in LiveValues(values) :
                      /\ ~values'[w].freed
                      /\ values'[w].data = values[w].data
                      /\ values'[w].cleanup = values[w].cleanup
         ]_vars

\* A wrapper with two references was released twice: the second release ran
\* the cleanup.
C2_Witness ==
    /\ last = Call("release", "SUCCESS")
    /\ cleaned = <<"p1">>
    /\ \E w \in 1..Len(values) : values[w].freed /\ held[w] = 0

(***************************************************************************)
(* Chain.  One thread calls the chain's functions, from the top level or   *)
(* from inside an event, a middleware or the failure handler that the      *)
(* running event_chain_execute has called.  What a callback does is an     *)
(* input: an event returns an EventResult; a middleware calls next any     *)
(* number of times (up to MaxNextCalls), writes to *result_ptr or leaves   *)
(* it alone, and returns; the failure handler returns a bool.  Each may    *)
(* call the chain's functions meanwhile.  The realloc of the failures      *)
(* array may fail.                                                         *)
(***************************************************************************)
FaultToleranceModes == {"STRICT", "LENIENT", "BEST_EFFORT", "CUSTOM"}

\* Names the callers pass to chainable_event_create, as character sequences:
\* a short one and one that does not fit ChainableEvent.name.
EventNames == {<<"e">>, <<"f", "g", "h">>}

FailureHandlers == {NULL, "handler"}

Min(a, b) == IF a <= b THEN a ELSE b

\* safe_strncpy(dest, src, dest_size): the string dest holds afterwards.
safe_strncpy(src, dest_size) ==
    IF src = NULL THEN <<>> ELSE SubSeq(src, 1, Min(Len(src), dest_size - 1))

\* chainable_event_create(execute, user_data, name) with a valid execute.
chainable_event_create(name) ==
    [name |-> IF name /= NULL
              THEN safe_strncpy(name, EVENTCHAINS_MAX_NAME_LENGTH)
              ELSE safe_strncpy(<<"U", "n", "n", "a", "m", "e", "d", "E", "v", "e", "n", "t">>,
                                EVENTCHAINS_MAX_NAME_LENGTH)]

\* event_result_success(result): *result afterwards.
event_result_success ==
    [success |-> TRUE, error_code |-> "SUCCESS", error_message |-> <<>>]

\* enum EventChainErrorCode: the number of an error code.
ErrorCodeNumber(error_code) ==
    CASE error_code = "SUCCESS" -> 0
      [] error_code = "NULL_POINTER" -> 1
      [] error_code = "INVALID_PARAMETER" -> 2
      [] error_code = "OUT_OF_MEMORY" -> 3
      [] error_code = "CAPACITY_EXCEEDED" -> 4
      [] error_code = "KEY_TOO_LONG" -> 5
      [] error_code = "NAME_TOO_LONG" -> 6
      [] error_code = "NOT_FOUND" -> 7
      [] error_code = "OVERFLOW" -> 8
      [] error_code = "EVENT_EXECUTION_FAILED" -> 9
      [] error_code = "MIDDLEWARE_FAILED" -> 10
      [] error_code = "REENTRANCY" -> 11
      [] error_code = "MEMORY_LIMIT_EXCEEDED" -> 12
      [] error_code = "INVALID_FUNCTION_POINTER" -> 13
      [] error_code = "TIME_CONVERSION" -> 14
      [] error_code = "SIGNAL_INTERRUPTED" -> 15

\* The characters "%d" prints for a number.
DecimalDigit(d) == SubSeq(<<"0", "1", "2", "3", "4", "5", "6", "7", "8", "9">>, d + 1, d + 1)

RECURSIVE Decimal(_)
Decimal(n) == IF n < 10 THEN DecimalDigit(n) ELSE Decimal(n \div 10) \o DecimalDigit(n % 10)

\* snprintf(buffer, size, "Error code: %d", error_code): the string the
\* buffer holds afterwards.
ErrorCodeMessage(error_code, size) ==
    LET text == <<"E", "r", "r", "o", "r", " ", "c", "o", "d", "e", ":", " ">>
                \o Decimal(ErrorCodeNumber(error_code))
    IN SubSeq(text, 1, Min(Len(text), size - 1))

ErrorDetailLevels == {"ERROR_DETAIL_FULL", "ERROR_DETAIL_MINIMAL"}

\* event_result_failure(result, error_message, error_code, detail_level)
\* with a message: *result afterwards.
event_result_failure(error_message, error_code, detail_level) ==
    [success |-> FALSE, error_code |-> error_code,
     error_message |-> IF detail_level = "ERROR_DETAIL_MINIMAL"
                       THEN ErrorCodeMessage(error_code, EVENTCHAINS_MAX_ERROR_LENGTH)
                       ELSE safe_strncpy(error_message, EVENTCHAINS_MAX_ERROR_LENGTH)]

\* The EventResults an event returns and a middleware writes.
EventResults ==
    {event_result_success,
     event_result_failure(<<"x">>, "EVENT_EXECUTION_FAILED", "ERROR_DETAIL_FULL"),
     event_result_failure(<<"y", "z", "w">>, "INVALID_PARAMETER", "ERROR_DETAIL_FULL")}

Top(stack) == stack[Len(stack)]

Pop(stack) == SubSeq(stack, 1, Len(stack) - 1)

ReplaceTop(stack, f) == [stack EXCEPT ![Len(stack)] = f]

\* The thread is inside a callback of the running execute: a middleware, an
\* event or the failure handler.
InCallback ==
    exec.stack /= <<>> /\ Top(exec.stack).pc \in {"in_middleware", "in_event", "in_handler"}

\* The thread is at the top level or inside a callback.
CanCall == exec.stack = <<>> \/ InCallback

InitChain ==
    /\ InitContext
    /\ \E mode \in FaultToleranceModes : chain = event_chain_create(mode)
    /\ exec = NotExecuting
    /\ threads = NoThreads
    /\ NoCompiler

\* ensure_event_capacity: the error code and the capacity it leaves.
ensure_event_capacity(cnt, cap) ==
    IF cnt < cap THEN [err |-> "SUCCESS", capacity |-> cap]
    ELSE IF cnt >= EVENTCHAINS_MAX_EVENTS
    THEN [err |-> "CAPACITY_EXCEEDED", capacity |-> cap]
    ELSE LET new_capacity == IF cap = 0 THEN INITIAL_CAPACITY ELSE cap * GROWTH_FACTOR IN
         [err |-> "SUCCESS",
          capacity |-> IF new_capacity > EVENTCHAINS_MAX_EVENTS
                       THEN EVENTCHAINS_MAX_EVENTS ELSE new_capacity]

\* ensure_middleware_capacity: the error code and the capacity it leaves.
ensure_middleware_capacity(cnt, cap) ==
    IF cnt < cap THEN [err |-> "SUCCESS", capacity |-> cap]
    ELSE IF cnt >= EVENTCHAINS_MAX_MIDDLEWARE
    THEN [err |-> "CAPACITY_EXCEEDED", capacity |-> cap]
    ELSE LET new_capacity == IF cap = 0 THEN INITIAL_CAPACITY ELSE cap * GROWTH_FACTOR IN
         [err |-> "SUCCESS",
          capacity |-> IF new_capacity > EVENTCHAINS_MAX_MIDDLEWARE
                       THEN EVENTCHAINS_MAX_MIDDLEWARE ELSE new_capacity]

\* Mutant of IsExecuting: the flag is not looked at.
IsExecuting_unchecked(c) == FALSE

\* ec_atomic_load(&chain->is_executing) as add_event and use_middleware
\* test it.
IsExecuting(c) == c.is_executing /= 0

\* event_chain_add_event(chain, event)
event_chain_add_event(event) ==
    LET cap == ensure_event_capacity(Len(chain.events), chain.event_capacity) IN
    /\ CanCall
    /\ IF IsExecuting(chain) THEN
           last' = Call("add_event", "REENTRANCY") /\ UNCHANGED chain
       ELSE IF cap.err /= "SUCCESS" THEN
           last' = Call("add_event", cap.err) /\ UNCHANGED chain
       ELSE
           /\ chain' = [chain EXCEPT !.event_capacity = cap.capacity,
                                     !.events = Append(@, event)]
           /\ last' = Call("add_event", "SUCCESS")
    /\ UNCHANGED exec

\* event_chain_use_middleware(chain, middleware): the middlewares are told
\* apart by their place in chain->middlewares.
event_chain_use_middleware ==
    LET cap == ensure_middleware_capacity(chain.middleware_count, chain.middleware_capacity) IN
    /\ CanCall
    /\ IF IsExecuting(chain) THEN
           last' = Call("use_middleware", "REENTRANCY") /\ UNCHANGED chain
       ELSE IF cap.err /= "SUCCESS" THEN
           last' = Call("use_middleware", cap.err) /\ UNCHANGED chain
       ELSE
           /\ chain' = [chain EXCEPT !.middleware_capacity = cap.capacity,
                                     !.middleware_count = @ + 1]
           /\ last' = Call("use_middleware", "SUCCESS")
    /\ UNCHANGED exec

\* event_chain_set_failure_handler(chain, handler, user_data)
event_chain_set_failure_handler(handler) ==
    /\ CanCall
    /\ chain' = [chain EXCEPT !.failure_handler = handler]
    /\ last' = Call("set_failure_handler", "SUCCESS")
    /\ UNCHANGED exec

\* A place in the order of one event's calls: middleware n was entered or
\* left, the callable of event n ran, or the failure handler was called for
\* event n.
LogEntry(at, n) == [at |-> at, n |-> n]

\* execute_event_direct with a valid event, up to the call of event->execute.
execute_event_direct(f) ==
    [f EXCEPT !.pc = "in_event", !.log = Append(@, LogEntry("event", f.i))]

\* Mutant of execute_next_middleware: the last middleware is taken for the
\* end of the pipeline.
execute_next_middleware_one_short(c, f, current_index) ==
    IF current_index + 1 > c.middleware_count
    THEN execute_event_direct(f)
    ELSE [f EXCEPT !.pc = "in_middleware",
                   !.active = Append(@, [index |-> current_index,
                                         next_ctx |-> current_index + 1,
                                         nexts |-> 0]),
                   !.log = Append(@, LogEntry("enter", current_index))]

\* execute_next_middleware with mw_ctx->current_index = current_index, up to
\* the callback it calls: the event past the last middleware, else
\* middleware current_index, which is handed next_ctx.
execute_next_middleware(c, f, current_index) ==
    IF current_index > c.middleware_count
    THEN execute_event_direct(f)
    ELSE [f EXCEPT !.pc = "in_middleware",
                   !.active = Append(@, [index |-> current_index,
                                         next_ctx |-> current_index + 1,
                                         nexts |-> 0]),
                   !.log = Append(@, LogEntry("enter", current_index))]

\* execute_event_with_middleware(chain, event, &event_result), up to the
\* callback it calls.
execute_event_with_middleware(c, f) ==
    IF c.middleware_count = 0
    THEN execute_event_direct(f)
    ELSE execute_next_middleware(c, f, 1)

\* Mutant of ExecuteExit: the flag is cleared only when the loop ran to its end.
ExecuteExit_not_on_break(c, stopped) ==
    IF stopped THEN c ELSE [c EXCEPT !.is_executing = 0]

\* event_chain_execute, "Mark execution as complete": the chain after the
\* loop was left, by its condition or by the break (stopped).
ExecuteExit(c, stopped) == [c EXCEPT !.is_executing = 0]

\* Mutant of Return: recorded failures make success false in every mode.
Return_failures_fail(c, stack, f, stopped) ==
    [chain |-> ExecuteExit(c, stopped),
     stack |-> Pop(stack),
     result |-> [accepted |-> TRUE,
                 success |-> f.success /\ ~(Len(f.failures) > 0),
                 failures |-> f.failures,
                 started |-> f.started,
                 outcomes |-> f.outcomes,
                 callable |-> f.callable,
                 stopped |-> stopped,
                 out_of_memory |-> f.out_of_memory,
                 overflow |-> f.overflow]]

\* event_chain_execute from the end of the loop to its return: the frame f of
\* the call is popped and *result_ptr is final.
Return(c, stack, f, stopped) ==
    [chain |-> ExecuteExit(c, stopped),
     stack |-> Pop(stack),
     result |-> [accepted |-> TRUE,
                 success |-> f.success
                             /\ ~(Len(f.failures) > 0 /\ c.fault_tolerance = "STRICT"),
                 failures |-> f.failures,
                 started |-> f.started,
                 outcomes |-> f.outcomes,
                 callable |-> f.callable,
                 stopped |-> stopped,
                 out_of_memory |-> f.out_of_memory,
                 overflow |-> f.overflow]]

\* event_chain_execute at the loop condition with index i: it declares
\* event_result and calls event i through the middlewares, or leaves the
\* loop and returns.
Loop(c, stack, f, i) ==
    IF i <= Len(c.events)
    THEN [chain |-> c,
          stack |-> ReplaceTop(stack,
                       execute_event_with_middleware(c,
                           [f EXCEPT !.i = i, !.started = @ + 1, !.active = <<>>,
                                     !.once = TRUE, !.event_result = Indeterminate,
                                     !.callable = Indeterminate, !.log = <<>>])),
          result |-> exec.result]
    ELSE Return(c, stack, f, FALSE)

\* The FailureInfo event_chain_execute writes for event i and its result;
\* index is not a field of the code's FailureInfo, it tells which event the
\* entry was written for.
FailureInfo(c, i, event_result) ==
    [index |-> i,
     event_name |-> safe_strncpy(c.events[i].name, EVENTCHAINS_MAX_NAME_LENGTH),
     error_message |-> safe_strncpy(event_result.error_message, EVENTCHAINS_MAX_ERROR_LENGTH),
     error_code |-> event_result.error_code]

\* Mutant of RecordFailure: leaving the loop by the break does not touch
\* result_ptr->success.
RecordFailure_keeps_success(c, stack, f, should_continue, realloc_ok, lands) ==
    LET grow == Len(f.failures) >= f.failure_capacity
        new_capacity == IF grow
                        THEN (IF f.failure_capacity = 0 THEN InitialFailureCapacity
                              ELSE f.failure_capacity * 2)
                        ELSE f.failure_capacity
        allocated == IF grow /\ realloc_ok THEN new_capacity ELSE f.allocated
        go_on == should_continue /\ ~(grow /\ ~realloc_ok)
        written == allocated > 0
        overflow == written /\ Len(f.failures) >= allocated
        g == [f EXCEPT !.failure_capacity = new_capacity,
                       !.allocated = allocated,
                       !.failures = IF written
                                    THEN Append(@, FailureInfo(c, f.i, f.event_result))
                                    ELSE @,
                       !.out_of_memory = @ \/ (grow /\ ~realloc_ok),
                       !.overflow = @ \/ overflow]
    IN IF overflow /\ ~lands
       THEN [chain |-> c,
             stack |-> ReplaceTop(stack, [f EXCEPT !.pc = "crashed", !.out_of_memory = TRUE,
                                                   !.overflow = TRUE]),
             result |-> exec.result]
       ELSE IF go_on THEN Loop(c, stack, g, f.i + 1) ELSE Return(c, stack, g, TRUE)

\* event_chain_execute after event f.i failed and should_continue is decided,
\* "Record failure": failure_capacity is raised when the array is full, and
\* the array is reallocated (f.allocated is the number of entries the block
\* at result_ptr->failures has room for, 0 for NULL).  When realloc fails the
\* old block stays; the entry is written whenever the pointer is not NULL,
\* past the end of the old block if that was full: undefined behaviour,
\* which either lands in the memory behind the block or stops the program.
RecordFailure(c, stack, f, should_continue, realloc_ok, lands) ==
    LET grow == Len(f.failures) >= f.failure_capacity
        new_capacity == IF grow
                        THEN (IF f.failure_capacity = 0 THEN InitialFailureCapacity
                              ELSE f.failure_capacity * 2)
                        ELSE f.failure_capacity
        allocated == IF grow /\ realloc_ok THEN new_capacity ELSE f.allocated
        go_on == should_continue /\ ~(grow /\ ~realloc_ok)
        written == allocated > 0
        overflow == written /\ Len(f.failures) >= allocated
        g == [f EXCEPT !.failure_capacity = new_capacity,
                       !.allocated = allocated,
                       !.failures = IF written
                                    THEN Append(@, FailureInfo(c, f.i, f.event_result))
                                    ELSE @,
                       !.out_of_memory = @ \/ (grow /\ ~realloc_ok),
                       !.overflow = @ \/ overflow,
                       !.success = IF go_on THEN @ ELSE FALSE]
    IN IF overflow /\ ~lands
       THEN [chain |-> c,
             stack |-> ReplaceTop(stack, [f EXCEPT !.pc = "crashed", !.out_of_memory = TRUE,
                                                   !.overflow = TRUE]),
             result |-> exec.result]
       ELSE IF go_on THEN Loop(c, stack, g, f.i + 1) ELSE Return(c, stack, g, TRUE)

\* Mutant of ShouldContinue: a failure stops no mode.
ShouldContinue_always(mode) == TRUE

\* event_chain_execute, the fault tolerance switch for the modes that call no
\* handler (Custom without a handler stops).
ShouldContinue(mode) == mode \in {"LENIENT", "BEST_EFFORT"}

\* Mutant of AfterEvent: where the event's callable ran, its success decides,
\* not what the middlewares left in event_result.
AfterEvent_by_callable(c, stack, f, realloc_ok, lands) ==
    IF (IF f.callable = Indeterminate THEN f.event_result.success ELSE f.callable.success)
    THEN Loop(c, stack, f, f.i + 1)
    ELSE IF c.fault_tolerance = "CUSTOM" /\ c.failure_handler /= NULL
    THEN [chain |-> c,
          stack |-> ReplaceTop(stack, [f EXCEPT !.pc = "in_handler",
                                                !.log = Append(@, LogEntry("handler", f.i))]),
          result |-> exec.result]
    ELSE RecordFailure(c, stack, f, ShouldContinue(c.fault_tolerance), realloc_ok, lands)

\* event_chain_execute after execute_event_with_middleware returned with
\* event_result in the frame: the next event on success; on failure the
\* fault tolerance switch, up to the call of the failure handler or through
\* the recording of the failure.
AfterEvent(c, stack, f, realloc_ok, lands) ==
    IF f.event_result.success THEN Loop(c, stack, f, f.i + 1)
    ELSE IF c.fault_tolerance = "CUSTOM" /\ c.failure_handler /= NULL
    THEN [chain |-> c,
          stack |-> ReplaceTop(stack, [f EXCEPT !.pc = "in_handler",
                                                !.log = Append(@, LogEntry("handler", f.i))]),
          result |-> exec.result]
    ELSE RecordFailure(c, stack, f, ShouldContinue(c.fault_tolerance), realloc_ok, lands)

\* What a step of the running execute leaves in last.
Progress(m) ==
    Call("execute",
         IF m.stack = <<>> THEN "RETURNED"
         ELSE IF Top(m.stack).pc = "crashed" THEN "CRASHED" ELSE "RUNNING")

\* Mutant of ExecuteRejected: the rejected call clears the flag on its way out.
ExecuteRejected_clears_flag(c) == [c EXCEPT !.is_executing = 0]

\* event_chain_execute when the compare-and-exchange of is_executing from 0
\* to 1 fails: the chain it leaves.
ExecuteRejected(c) == c

\* event_chain_execute, "Initialize result": the frame of an accepted call
\* before its loop.
ExecuteFrame ==
    [pc |-> "loop", i |-> 1, started |-> 0, active |-> <<>>, once |-> TRUE,
     event_result |-> Indeterminate, callable |-> Indeterminate,
     log |-> <<>>, outcomes |-> <<>>,
     success |-> TRUE, failures |-> <<>>,
     failure_capacity |-> 0, allocated |-> 0,
     out_of_memory |-> FALSE, overflow |-> FALSE]

\* event_chain_execute(chain, &result), called from the top level or from
\* inside a callback, up to its first callback or its return.  Its frame
\* holds the loop index i, event_result, the ChainResult under construction
\* (success, failures, failure_capacity) and the middlewares that are active;
\* besides, for the properties: started (pipelines started), log (the order
\* of calls in the pipeline of event i), once (every middleware that returned
\* had called next exactly once), callable (what the callable of event i
\* returned), outcomes (the result of each finished pipeline), allocated,
\* out_of_memory (a realloc failed) and overflow (an entry was written past
\* the end of the failures array).  The result
\* object of a call made from inside a callback is another one than that of
\* the running call.
event_chain_execute ==
    /\ CanCall
    /\ IF chain.is_executing /= 0 THEN
           /\ exec' = [exec EXCEPT !.result = NoResult]
           /\ last' = Call("execute", "REJECTED")
           /\ chain' = ExecuteRejected(chain)
       ELSE
           LET f == ExecuteFrame
               m == Loop([chain EXCEPT !.is_executing = 1], Append(exec.stack, f), f, 1)
           IN /\ chain' = m.chain
              /\ exec' = [stack |-> m.stack,
                          result |-> IF m.stack = <<>> THEN m.result ELSE NoResult]
              /\ last' = Progress(m)

\* The running middleware calls next(result_ptr, event, context, next_data)
\* with the next_data it was given.
MiddlewareCallsNext ==
    LET f == Top(exec.stack)
        a == Top(f.active)
        g == [f EXCEPT !.active = ReplaceTop(@, [a EXCEPT !.nexts = @ + 1])]
    IN
    /\ exec.stack /= <<>>
    /\ f.pc = "in_middleware"
    /\ a.nexts < MaxNextCalls
    /\ exec' = [exec EXCEPT !.stack = ReplaceTop(@, execute_next_middleware(chain, g, a.next_ctx))]
    /\ last' = Call("middleware", "NEXT")
    /\ UNCHANGED chain

\* Where control is after a callback of the pipeline returned: in the
\* middleware that called next, or back in event_chain_execute.
Unwind(active) == IF active = <<>> THEN "event_done" ELSE "in_middleware"

\* The running event returns event_result: "*result_ptr = event->execute()".
EventReturns(event_result) ==
    LET f == Top(exec.stack) IN
    /\ exec.stack /= <<>>
    /\ f.pc = "in_event"
    /\ exec' = [exec EXCEPT !.stack = ReplaceTop(@,
                   [f EXCEPT !.event_result = event_result, !.callable = event_result,
                             !.pc = Unwind(f.active)])]
    /\ last' = Call("event", "RETURN")
    /\ UNCHANGED chain

\* A middleware that returns without writing to *result_ptr.
Keep == [success |-> FALSE, error_code |-> "KEEP", error_message |-> <<>>]

\* Mutant of MiddlewareWrites: what the middleware writes is lost.
MiddlewareWrites_lost(event_result, write) == event_result

\* *result_ptr after the running middleware wrote to it (event_result_failure
\* or event_result_success on result_ptr), or left it alone.
MiddlewareWrites(event_result, write) ==
    IF write = Keep THEN event_result ELSE write

\* The running middleware returns, having written write to *result_ptr.
MiddlewareReturns(write) ==
    LET f == Top(exec.stack)
        a == Top(f.active)
    IN
    /\ exec.stack /= <<>>
    /\ f.pc = "in_middleware"
    /\ exec' = [exec EXCEPT !.stack = ReplaceTop(@,
                   [f EXCEPT !.event_result = MiddlewareWrites(@, write),
                             !.active = Pop(@),
                             !.once = @ /\ a.nexts = 1,
                             !.log = Append(@, LogEntry("leave", a.index)),
                             !.pc = Unwind(Pop(f.active))])]
    /\ last' = Call("middleware", "RETURN")
    /\ UNCHANGED chain

\* event_chain_execute reads event_result after execute_event_with_middleware
\* returned (seen is what it reads where nothing was written) and goes on to
\* its next callback or to its return.
ExecuteContinues(seen, realloc_ok, lands) ==
    LET f == Top(exec.stack)
        m == AfterEvent(chain, exec.stack,
                        [f EXCEPT !.event_result = seen, !.outcomes = Append(@, seen)],
                        realloc_ok, lands)
    IN
    /\ exec.stack /= <<>>
    /\ f.pc = "event_done"
    /\ seen \in (IF f.event_result = Indeterminate THEN EventResults ELSE {f.event_result})
    /\ chain' = m.chain
    /\ exec' = [stack |-> m.stack, result |-> m.result]
    /\ last' = Progress(m)

\* Mutant of HandlerReturns: what the handler returns is taken for false.
HandlerReturns_ignored(should_continue, realloc_ok, lands) ==
    LET f == Top(exec.stack)
        m == RecordFailure(chain, exec.stack, f, FALSE, realloc_ok, lands)
    IN
    /\ exec.stack /= <<>>
    /\ f.pc = "in_handler"
    /\ chain' = m.chain
    /\ exec' = [stack |-> m.stack, result |-> m.result]
    /\ last' = Progress(m)

\* The failure handler returns should_continue to event_chain_execute.
HandlerReturns(should_continue, realloc_ok, lands) ==
    LET f == Top(exec.stack)
        m == RecordFailure(chain, exec.stack, f, should_continue, realloc_ok, lands)
    IN
    /\ exec.stack /= <<>>
    /\ f.pc = "in_handler"
    /\ chain' = m.chain
    /\ exec' = [stack |-> m.stack, result |-> m.result]
    /\ last' = Progress(m)

ctxFrame == <<values, held, cleaned, ctxVars, concVars, threads, compilerVars>>

AddEvent ==
    (\E name \in EventNames : event_chain_add_event(chainable_event_create(name)))
    /\ UNCHANGED ctxFrame

UseMiddleware == event_chain_use_middleware /\ UNCHANGED ctxFrame

SetFailureHandler ==
    (\E handler \in FailureHandlers : event_chain_set_failure_handler(handler))
    /\ UNCHANGED ctxFrame

Execute == event_chain_execute /\ UNCHANGED ctxFrame

CallNext == MiddlewareCallsNext /\ UNCHANGED ctxFrame

EventReturn ==
    (\E event_result \in EventResults : EventReturns(event_result)) /\ UNCHANGED ctxFrame

MiddlewareReturn ==
    (\E write \in EventResults \cup {Keep} : MiddlewareReturns(write)) /\ UNCHANGED ctxFrame

ExecuteContinue ==
    (\E seen \in EventResults, realloc_ok \in BOOLEAN, lands \in BOOLEAN :
        ExecuteContinues(seen, realloc_ok, lands))
    /\ UNCHANGED ctxFrame

HandlerReturn ==
    (\E should_continue \in BOOLEAN, realloc_ok \in BOOLEAN, lands \in BOOLEAN :
        HandlerReturns(should_continue, realloc_ok, lands))
    /\ UNCHANGED ctxFrame

NextChain ==
    \/ AddEvent \/ UseMiddleware \/ SetFailureHandler \/ Execute
    \/ CallNext \/ EventReturn \/ MiddlewareReturn \/ ExecuteContinue \/ HandlerReturn

SpecChain == InitChain /\ [][NextChain]_vars

\* C10: when an accepted event_chain_execute call returns, is_executing is 0,
\* in every fault mode, whether the events succeeded, failed or the loop was
\* left early; so with no execute call running the flag is 0, and an execute,
\* add_event or use_middleware called then is not rejected as reentrant.
C10_FlagClearedAfterExecute ==
    /\ [](exec.stack = <<>> => chain.is_executing = 0)
    /\ [][/\ (Len(exec'.stack) < Len(exec.stack)) =>
                (exec'.result.accepted /\ chain'.is_executing = 0)
          /\ exec.stack = <<>> =>
                last' \notin {Call("execute", "REJECTED"), Call("add_event", "REENTRANCY"),
                              Call("use_middleware", "REENTRANCY")}
         ]_vars

\* An execute of two events in Strict mode has returned after the first
\* event failed.
C10_Witness ==
    /\ last = Call("execute", "RETURNED")
    /\ chain.fault_tolerance = "STRICT"
    /\ Len(chain.events) = 2
    /\ exec.stack = <<>>
    /\ exec.result.accepted /\ ~exec.result.success
    /\ Len(exec.result.failures) = 1 /\ exec.result.failures[1].index = 1
    /\ chain.is_executing = 0

\* C11: an event_chain_execute called from inside a middleware, an event or
\* the failure handler of the running execute returns at once with success =
\* false and no failures; it runs nothing and changes neither is_executing
\* (which is 1 inside every callback) nor anything else of the chain, the
\* context or the running call (its index, its recorded failures, the
\* pipeline's position), so the outer call goes on exactly as without it.
C11_ReentrantExecuteRejected ==
    /\ [](exec.stack /= <<>> => chain.is_executing = 1)
    /\ [][(InCallback /\ Execute) =>
            /\ ~exec'.result.accepted /\ ~exec'.result.success
            /\ exec'.result.failures = <<>>
            /\ exec'.stack = exec.stack
            /\ chain' = chain /\ chain'.is_executing = 1
            /\ UNCHANGED ctxFrame
         ]_vars

\* Execute was called from inside the first of two middlewares while the
\* first of two events was in the pipeline, and was rejected.
C11_Witness ==
    /\ last = Call("execute", "REJECTED")
    /\ exec.stack /= <<>>
    /\ Top(exec.stack).pc = "in_middleware" /\ Top(exec.stack).i = 1
    /\ Len(Top(exec.stack).active) = 1
    /\ chain.middleware_count = 2 /\ Len(chain.events) = 2
    /\ chain.is_executing = 1

\* C12: event_chain_add_event and event_chain_use_middleware called from
\* inside a callback of the running execute return REENTRANCY and change
\* nothing; and from the start of an execute to its return the chain's events
\* and middlewares stay as they were, so the call runs those registered
\* before it started.
C12_NoRegistrationWhileExecuting ==
    /\ [][(InCallback /\ AddEvent) =>
            (last' = Call("add_event", "REENTRANCY") /\ chain' = chain /\ exec' = exec)]_vars
    /\ [][(InCallback /\ UseMiddleware) =>
            (last' = Call("use_middleware", "REENTRANCY") /\ chain' = chain /\ exec' = exec)]_vars
    /\ [][(exec.stack /= <<>>) =>
            /\ chain'.events = chain.events
            /\ chain'.middleware_count = chain.middleware_count]_vars

\* add_event was called from inside the first event of a chain that has
\* room for another event, and was rejected.
C12_Witness ==
    /\ last = Call("add_event", "REENTRANCY")
    /\ exec.stack /= <<>> /\ Top(exec.stack).pc = "in_event"
    /\ Len(chain.events) = 1 /\ Len(chain.events) < EVENTCHAINS_MAX_EVENTS
    /\ chain.middleware_count = 1

\* C13: event_chain_set_failure_handler called from inside a callback of the
\* running execute (is_executing = 1) returns REENTRANCY and leaves the
\* chain's failure handler as it was.
C13_NoHandlerChangeWhileExecuting ==
    [][(InCallback /\ chain.is_executing = 1 /\ SetFailureHandler) =>
          /\ last' = Call("set_failure_handler", "REENTRANCY")
          /\ chain'.failure_handler = chain.failure_handler
      ]_vars

\* The order of calls the onion of event i has with n middlewares that each
\* call next once: middlewares 1..n entered, the event's callable, middlewares
\* n..1 left.
OnionOrder(n, i) ==
    [k \in 1..(2 * n + 1) |->
        IF k <= n THEN LogEntry("enter", k)
        ELSE IF k = n + 1 THEN LogEntry("event", i)
        ELSE LogEntry("leave", 2 * n + 2 - k)]

\* C14: when the pipeline of event i has returned to event_chain_execute and
\* every middleware called next exactly once, the calls were: middlewares
\* 1..n entered in registration order, the callable of event i once,
\* middlewares n..1 left.  The first pipeline a call starts is that of event
\* 1, and the pipeline of event i + 1 starts only after that of event i has
\* returned; no other callable runs inside the pipeline of event i.
C14_OnionOrder ==
    /\ [](exec.stack /= <<>> =>
            LET f == Top(exec.stack) IN
            /\ (f.pc = "event_done" /\ f.once) =>
                   f.log = OnionOrder(chain.middleware_count, f.i)
            /\ \A k \in 1..Len(f.log) : f.log[k].at = "event" => f.log[k].n = f.i
            /\ f.started = f.i)
    /\ [][(exec.stack = <<>> /\ exec'.stack /= <<>>) => Top(exec'.stack).i = 1]_vars
    /\ [][(exec.stack /= <<>> /\ exec'.stack /= <<>>
            /\ Top(exec'.stack).i /= Top(exec.stack).i) =>
               /\ Top(exec.stack).pc \in {"event_done", "in_handler"}
               /\ Top(exec'.stack).i = Top(exec.stack).i + 1]_vars

\* The pipeline of the second event has returned through two middlewares
\* that each called next once.
C14_Witness ==
    /\ exec.stack /= <<>>
    /\ Top(exec.stack).pc = "event_done" /\ Top(exec.stack).once
    /\ Top(exec.stack).i = 2
    /\ chain.middleware_count = 2
    /\ Len(Top(exec.stack).log) = 5

\* After a step of the running execute: its frame, or the ChainResult it
\* returned; both hold failures, outcomes, callable, started, out_of_memory
\* and overflow.
AfterStep == IF exec'.stack /= <<>> THEN Top(exec'.stack) ELSE exec'.result

Continued ==
    \/ /\ exec'.stack /= <<>>
       /\ Top(exec'.stack).i = Top(exec.stack).i + 1
       /\ Top(exec'.stack).pc \in {"in_middleware", "in_event"}
    \/ /\ exec'.stack = <<>>
       /\ Top(exec.stack).i = Len(chain.events)
       /\ ~exec'.result.stopped

\* A step of the running execute left the loop by the break and returned.
Stopped == exec'.stack = <<>> /\ exec'.result.stopped /\ ~exec'.result.success

\* A step of the running execute appended the FailureInfo of the event in
\* the frame and its result to the failures.
Recorded ==
    AfterStep.failures =
        Append(Top(exec.stack).failures,
               FailureInfo(chain, Top(exec.stack).i,
                           AfterStep.outcomes[Len(AfterStep.outcomes)]))

\* What event_chain_execute does with the event in its frame is what the
\* event_result it reads asks for: on success nothing is recorded and the
\* loop goes on, in Strict mode too; on failure the handler is called (Custom
\* mode with a handler), or the failure is recorded and the loop goes on
\* (Lenient, Best-effort) or is left (Strict, Custom without handler).
\* unless_oom: nothing is said of a failure for which realloc failed.
TreatedByResult(unless_oom) ==
    LET f == Top(exec.stack)
        r == AfterStep.outcomes[Len(AfterStep.outcomes)]
    IN /\ AfterStep.outcomes = Append(f.outcomes, r)
       /\ f.event_result /= Indeterminate => r = f.event_result
       /\ IF r.success THEN AfterStep.failures = f.failures /\ Continued
          ELSE IF chain.fault_tolerance = "CUSTOM" /\ chain.failure_handler /= NULL
          THEN /\ exec'.stack /= <<>> /\ Top(exec'.stack).pc = "in_handler"
               /\ AfterStep.failures = f.failures
          ELSE \/ unless_oom /\ AfterStep.out_of_memory
               \/ /\ Recorded
                  /\ IF chain.fault_tolerance \in {"LENIENT", "BEST_EFFORT"}
                     THEN Continued ELSE Stopped

\* The failure the handler was called for is recorded when the handler has
\* returned, and the loop goes on or is left.
RecordedAfterHandler(unless_oom) ==
    \/ unless_oom /\ AfterStep.out_of_memory
    \/ /\ AfterStep.outcomes = Top(exec.stack).outcomes
       /\ Recorded
       /\ Continued \/ Stopped

Returned ==
    exec.stack = <<>> /\ last = Call("execute", "RETURNED") /\ exec.result.accepted

\* The first pipeline that ended in a failure, 0 if none did.
FirstFailure(outcomes) ==
    IF \A k \in 1..Len(outcomes) : outcomes[k].success THEN 0
    ELSE CHOOSE k \in 1..Len(outcomes) :
            /\ ~outcomes[k].success
            /\ \A j \in 1..(k - 1) : outcomes[j].success

\* What a Strict execute returns: with no failure every event has run and
\* success is true with no failures; else the first failed event is the last
\* one started, success is false, and failures holds the FailureInfo of that
\* event and nothing else (or_none: or nothing at all, realloc having failed).
StrictResult(or_none) ==
    LET r == exec.result
        k == FirstFailure(r.outcomes)
    IN IF k = 0
       THEN /\ r.started = Len(chain.events) /\ Len(r.outcomes) = Len(chain.events)
            /\ r.success /\ r.failures = <<>>
       ELSE /\ r.started = k /\ Len(r.outcomes) = k
            /\ ~r.success
            /\ \/ r.failures = <<FailureInfo(chain, k, r.outcomes[k])>>
               \/ or_none /\ r.out_of_memory /\ r.failures = <<>>

\* C17 as stated: a Strict execute stops at the first event whose result is
\* a failure, with exactly one FailureInfo, that event's, and success =
\* false; with no failure it runs every event and returns success = true and
\* no failures.
C17_StrictStopsAtFirstFailure ==
    (Returned /\ chain.fault_tolerance = "STRICT") => StrictResult(FALSE)

\* C17, amended: as C17, except that no FailureInfo at all is recorded when
\* the failures array could not be allocated.
C17_StrictStopsAtFirstFailureOneOrNoInfo ==
    (Returned /\ chain.fault_tolerance = "STRICT") => StrictResult(TRUE)

\* A Strict execute of two events behind a middleware has returned after
\* the first event failed: the second was not started.
C17_Witness ==
    /\ Returned
    /\ chain.fault_tolerance = "STRICT"
    /\ Len(chain.events) = 2 /\ chain.middleware_count = 1
    /\ exec.result.started = 1
    /\ ~exec.result.success
    /\ Len(exec.result.failures) = 1 /\ exec.result.failures[1].index = 1
    /\ ~exec.result.out_of_memory

\* What a Lenient or Best-effort execute returns: every registered event
\* has run, the loop was left by its condition, and success is true.
LenientResult ==
    LET r == exec.result IN
    /\ r.started = Len(chain.events) /\ Len(r.outcomes) = Len(chain.events)
    /\ ~r.stopped
    /\ r.success

HandlerCalls(log) == {k \in 1..Len(log) : log[k].at = "handler"}

\* Custom mode, up to the handler's return: event_chain_execute calls the
\* handler registered at that time when, and only when, the event_result it
\* reads is a failure, with that event and that result, and once: the next
\* step of the execute takes the handler's answer and leaves the event.  With
\* no handler registered a failure ends the loop.
CustomCallsHandler ==
    /\ [](exec.stack /= <<>> =>
            LET f == Top(exec.stack) IN
            /\ Cardinality(HandlerCalls(f.log)) <= 1
            /\ f.pc = "in_handler" => Cardinality(HandlerCalls(f.log)) = 1
            /\ f.pc \in {"in_middleware", "in_event", "event_done"} =>
                  HandlerCalls(f.log) = {})
    /\ [][(exec.stack /= <<>> /\ Top(exec.stack).pc = "event_done"
            /\ chain.fault_tolerance = "CUSTOM" /\ exec' /= exec) =>
            LET f == Top(exec.stack)
                r == AfterStep.outcomes[Len(AfterStep.outcomes)]
            IN IF r.success THEN Continued
               ELSE IF chain.failure_handler /= NULL
               THEN /\ exec'.stack /= <<>>
                    /\ Top(exec'.stack).pc = "in_handler"
                    /\ Top(exec'.stack).i = f.i
                    /\ Top(exec'.stack).event_result = r
                    /\ Top(exec'.stack).log = Append(f.log, LogEntry("handler", f.i))
               ELSE ~Continued
         ]_vars
    /\ [][(exec.stack /= <<>> /\ Top(exec.stack).pc = "in_handler"
            /\ exec'.stack /= exec.stack) =>
            (exec'.stack = <<>> \/ Top(exec'.stack).pc /= "in_handler")]_vars

\* C19 as stated: in Custom mode the handler is called once for each failed
\* event, and the execution goes on to the next event exactly if the handler
\* returns true; without a handler it stops at the first failure.
C19_CustomHandlerDecides ==
    /\ CustomCallsHandler
    /\ [][\A should_continue \in BOOLEAN, realloc_ok \in BOOLEAN, lands \in BOOLEAN :
            HandlerReturns(should_continue, realloc_ok, lands) =>
                (Continued <=> should_continue)]_vars

\* C19, amended: as C19, except that the execution goes on exactly if the
\* handler returns true and the failures array could be grown to record the
\* failure.
C19_CustomHandlerDecidesUnlessOutOfMemory ==
    /\ CustomCallsHandler
    /\ [][\A should_continue \in BOOLEAN, realloc_ok \in BOOLEAN, lands \in BOOLEAN :
            HandlerReturns(should_continue, realloc_ok, lands) =>
                (Continued <=> (should_continue /\ ~AfterStep.out_of_memory))]_vars

\* In Custom mode the first of two events failed, the handler was called
\* and returned true: the failure is recorded and the second event is in
\* its pipeline.
C19_Witness ==
    /\ exec.stack /= <<>>
    /\ chain.fault_tolerance = "CUSTOM"
    /\ last = Call("execute", "RUNNING")
    /\ Top(exec.stack).i = 2
    /\ Top(exec.stack).pc \in {"in_middleware", "in_event"}
    /\ Len(Top(exec.stack).outcomes) = 1 /\ ~Top(exec.stack).outcomes[1].success
    /\ Len(Top(exec.stack).failures) = 1 /\ Top(exec.stack).failures[1].index = 1

\* The FailureInfos of the failed ones among the first k pipelines, in order.
RECURSIVE FailuresOf(_, _, _)
FailuresOf(c, outcomes, k) ==
    IF k = 0 THEN <<>>
    ELSE IF outcomes[k].success THEN FailuresOf(c, outcomes, k - 1)
    ELSE Append(FailuresOf(c, outcomes, k - 1), FailureInfo(c, k, outcomes[k]))

\* C20: in every fault mode, when event_chain_execute has returned, failures
\* holds one FailureInfo for each executed event whose final result was a
\* failure and nothing else, in the order of execution, each with the event's
\* name and the error message and error code of that result, all of them
\* inside the array that was allocated for them.
C20_FailuresAreTheFailedEvents ==
    Returned =>
        /\ exec.result.failures =
              FailuresOf(chain, exec.result.outcomes, Len(exec.result.outcomes))
        /\ ~exec.result.overflow

\* A FailureInfo was written past the end of the failures array, and
\* event_chain_execute has returned.
C20_OverflowReached == Returned /\ exec.result.overflow

\* The running execute stopped by undefined behaviour (see RecordFailure).
Crashed == exec'.stack /= <<>> /\ Top(exec'.stack).pc = "crashed"

\* What an accepted Custom execute returns: success is false exactly when the
\* loop was left by the break, which happens at a failed event only; when it
\* was left by its condition every event has run and success is true, with
\* the failures that were recorded on the way.
CustomResult ==
    LET r == exec.result IN
    (Returned /\ chain.fault_tolerance = "CUSTOM") =>
        /\ ~r.success <=> r.stopped
        /\ r.stopped => ~r.outcomes[Len(r.outcomes)].success
        /\ ~r.stopped =>
              /\ r.started = Len(chain.events) /\ Len(r.outcomes) = Len(chain.events)
              /\ r.failures = FailuresOf(chain, r.outcomes, Len(r.outcomes))

\* In Custom mode with no handler registered, a failed event ends the loop
\* by the break.
CustomWithoutHandlerStops ==
    (/\ exec.stack /= <<>> /\ Top(exec.stack).pc = "event_done"
     /\ chain.fault_tolerance = "CUSTOM" /\ chain.failure_handler = NULL
     /\ exec' /= exec
     /\ ~AfterStep.outcomes[Len(AfterStep.outcomes)].success) => Stopped \/ Crashed

\* C29 as stated: in Custom mode, success after execute is false exactly
\* when the chain was stopped on a failure, which is when the handler
\* returned false or no handler is registered; when the handler returns true
\* for every failed event, all events run and success is true although
\* failures are recorded.
C29_CustomSuccess ==
    /\ []CustomResult
    /\ [][CustomWithoutHandlerStops]_vars
    /\ [][\A should_continue \in BOOLEAN, realloc_ok \in BOOLEAN, lands \in BOOLEAN :
            (chain.fault_tolerance = "CUSTOM"
             /\ HandlerReturns(should_continue, realloc_ok, lands)) =>
                IF should_continue THEN Continued ELSE Stopped]_vars

\* C29, amended: as C29, except that the chain is also stopped, with success
\* false, at a failure for which the handler returned true when the failures
\* array could not be grown to record it.
C29_CustomSuccessUnlessOutOfMemory ==
    /\ []CustomResult
    /\ [][CustomWithoutHandlerStops]_vars
    /\ [][\A should_continue \in BOOLEAN, realloc_ok \in BOOLEAN, lands \in BOOLEAN :
            (chain.fault_tolerance = "CUSTOM"
             /\ HandlerReturns(should_continue, realloc_ok, lands)) =>
                IF should_continue /\ ~AfterStep.out_of_memory THEN Continued
                ELSE Stopped \/ (Crashed /\ AfterStep.out_of_memory)]_vars

\* A Custom execute of two events has returned: both failed, the handler
\* returned true both times, both failures are recorded and success is true.
C29_Witness ==
    /\ Returned
    /\ chain.fault_tolerance = "CUSTOM" /\ chain.failure_handler /= NULL
    /\ Len(chain.events) = 2
    /\ exec.result.started = 2
    /\ \A k \in 1..2 : ~exec.result.outcomes[k].success
    /\ Len(exec.result.failures) = 2
    /\ exec.result.success /\ ~exec.result.stopped /\ ~exec.result.out_of_memory

(***************************************************************************)
(* Two threads on one context.  Every context function holds the context   *)
(* mutex from its first read to its last write, and the reference count is *)
(* changed by atomic fetch-and-add, so the body of each function is one    *)
(* step.  A thread that has called a function and not yet locked the mutex *)
(* is a step of its own for get_ref: event_context_destroy can run in      *)
(* between, and get_ref then reads freed memory, which has no defined      *)
(* outcome.                                                                *)
(***************************************************************************)
ConcKeys == {"a", "b"}

ConcArgs == {<<"p1", "free">>, <<"p2", NULL>>}

\* The writer thread: set, remove, clear on the live context.
WriterSet ==
    /\ alive
    /\ \E key \in ConcKeys, a \in ConcArgs : event_context_set_with_cleanup(key, a[1], a[2])
    /\ UNCHANGED <<concVars, chainVars, compilerVars>>

WriterRemove ==
    /\ alive
    /\ \E key \in ConcKeys : event_context_remove(key)
    /\ UNCHANGED <<concVars, chainVars, compilerVars>>

WriterClear ==
    /\ alive
    /\ event_context_clear
    /\ UNCHANGED <<concVars, chainVars, compilerVars>>

\* event_context_destroy(context): the values are released; count and the
\* freed entry array keep what they held.
event_context_destroy ==
    LET h == ReleaseAll(Heap(values), entries, count) IN
    /\ alive
    /\ alive' = FALSE
    /\ values' = h.vals
    /\ cleaned' = h.log
    /\ stored' = NoKeys
    /\ last' = Call("destroy", "SUCCESS")
    /\ UNCHANGED <<held, entries, count, capacity, total_memory_bytes>>

\* The writer thread destroys the context; raced records that the reader
\* was inside get_ref at that time.
Destroy ==
    /\ event_context_destroy
    /\ reader' = [reader EXCEPT !.raced = @ \/ reader.pc = "get_ref"]
    /\ UNCHANGED <<chainVars, compilerVars>>

\* The reader thread calls event_context_get_ref(context, key, &value) on the
\* live context and is about to lock the mutex.
ReaderCall ==
    /\ alive
    /\ reader.pc = "idle"
    /\ \E key \in ConcKeys : reader' = [reader EXCEPT !.pc = "get_ref", !.key = key]
    /\ UNCHANGED <<values, held, cleaned, ctxVars, last, alive, chainVars, compilerVars>>

\* event_context_get_ref from the lock to the unlock, as coded.  On a
\* destroyed context it runs on what the freed memory still holds.
event_context_get_ref(key) ==
    LET idx == find_entry(entries, count, key)
        value == entries[idx].value
    IN
    IF idx = 0 THEN
        /\ reader' = [reader EXCEPT !.pc = "idle"]
        /\ last' = Call("get_ref", "NOT_FOUND")
        /\ UNCHANGED <<values, held>>
    ELSE
        /\ values' = ref_counted_value_retain(Heap(values), value).vals
        /\ held' = [held EXCEPT ![value] = @ + 1]
        /\ reader' = [reader EXCEPT !.pc = "holding", !.ref = value]
        /\ last' = Call("get_ref", "SUCCESS")

\* The reader's get_ref runs.  After a destroy the outcomes are: what the
\* code does on the stale memory, NOT_FOUND (the memory was overwritten), or
\* a crash.
ReaderGetRef ==
    /\ reader.pc = "get_ref"
    /\ \/ event_context_get_ref(reader.key)
       \/ /\ ~alive
          /\ reader' = [reader EXCEPT !.pc = "idle"]
          /\ last' = Call("get_ref", "NOT_FOUND")
          /\ UNCHANGED <<values, held>>
       \/ /\ ~alive
          /\ reader' = [reader EXCEPT !.pc = "crashed"]
          /\ last' = Call("get_ref", "CRASH")
          /\ UNCHANGED <<values, held>>
    /\ cleaned' = <<>>
    /\ UNCHANGED <<ctxVars, alive, chainVars, compilerVars>>

\* The reader releases the reference it got.  On a wrapper already freed the
\* outcomes are: the stale count is decremented and nothing else happens, or
\* the stale cleanup runs again on whatever the stale payload is.
ReaderRelease ==
    LET w == reader.ref
        h == ref_counted_value_release(Heap(values), w)
    IN
    /\ reader.pc = "holding"
    /\ IF values[w].freed
       THEN /\ values' = [values EXCEPT ![w] = Freed]
            /\ \/ cleaned' = <<>>
               \/ \E data \in Payloads \ {NULL} : cleaned' = <<data>>
       ELSE /\ values' = h.vals
            /\ cleaned' = h.log
    /\ held' = [held EXCEPT ![w] = @ - 1]
    /\ reader' = [reader EXCEPT !.pc = "idle", !.ref = 0]
    /\ last' = Call("release", "SUCCESS")
    /\ UNCHANGED <<ctxVars, alive, chainVars, compilerVars>>

NextConc ==
    WriterSet \/ WriterRemove \/ WriterClear \/ Destroy
    \/ ReaderCall \/ ReaderGetRef \/ ReaderRelease

SpecConc == InitCtx /\ [][NextConc]_vars

\* The references the context owns to wrapper w.
ContextRefs(w) ==
    IF alive THEN Cardinality({i \in 1..count : entries[i].value = w}) ELSE 0

\* Every live wrapper counts exactly the references the context and the
\* callers own, so it is freed (and its cleanup run) by the release of the
\* last of them; a freed wrapper has no owner left to release it again.
RefAccounting ==
    \A w \in 1..Len(values) :
        IF values[w].freed
        THEN held[w] = 0 /\ ContextRefs(w) = 0
        ELSE values[w].ref_count = held[w] + ContextRefs(w) /\ values[w].ref_count >= 1

\* The wrapper the reader got from get_ref is not freed while the reader
\* has not released it.
HolderSafe ==
    reader.pc = "holding" => ~values[reader.ref].freed /\ held[reader.ref] >= 1

\* The reader's release runs the cleanup exactly if no other reference is
\* left; while the reader keeps its reference, no step frees the wrapper or
\* changes its payload.
HolderSteps ==
    LET w == reader.ref IN
    reader.pc = "holding" =>
        IF reader'.pc = "holding"
        THEN ~values'[w].freed /\ values'[w].data = values[w].data
        ELSE /\ values'[w].freed = (values[w].ref_count = 1)
             /\ cleaned' = IF values[w].ref_count = 1
                              /\ values[w].cleanup /= NULL /\ values[w].data /= NULL
                           THEN <<values[w].data>> ELSE <<>>

\* C9 as claimed: a value obtained with get_ref, whatever the other thread
\* does concurrently or afterwards (remove, overwrite, clear, destroy), is not
\* cleaned up before the get_ref caller releases it, and is cleaned up
\* exactly once.
C9_GetRefSafeInEveryInterleaving ==
    /\ [](RefAccounting /\ HolderSafe)
    /\ [][HolderSteps]_vars

\* C9 as amended: the same, for a remove, overwrite or clear at any time, and
\* for a destroy that does not begin while the caller is inside get_ref.
C9_GetRefSafeUnlessDestroyRaces ==
    /\ [](~reader.raced => (RefAccounting /\ HolderSafe))
    /\ [][~reader'.raced => HolderSteps]_vars

\* The context was destroyed while the reader held a reference obtained
\* before; the reader's release then ran the cleanup.
C9_Witness ==
    /\ ~alive
    /\ ~reader.raced
    /\ reader.pc = "idle"
    /\ last = Call("release", "SUCCESS")
    /\ cleaned = <<"p1">>

(***************************************************************************)
(* Two threads on one chain.  The chain was set up before (its events, its *)
(* fault mode, its failure handler; no middleware) and both threads call   *)
(* event_chain_execute on it, each with a ChainResult of its own, again    *)
(* and again.  The compare-and-exchange and the store of is_executing are  *)
(* atomic in every build (C11 atomics, Interlocked or __sync builtins);    *)
(* between them a call touches nothing another execute writes, so a step   *)
(* of a call runs from one callback to the next.  A crash of one thread    *)
(* ends the program.                                                       *)
(***************************************************************************)
\* Mutant of ec_atomic_compare_exchange_strong: the exchange is made
\* whatever the flag holds.
ec_atomic_compare_exchange_strong_blind(c) ==
    [ok |-> TRUE, chain |-> [c EXCEPT !.is_executing = 1]]

\* ec_atomic_compare_exchange_strong(&chain->is_executing, &expected, 1)
\* with expected = 0: whether it exchanged, and the chain afterwards.
ec_atomic_compare_exchange_strong(c) ==
    IF c.is_executing = 0
    THEN [ok |-> TRUE, chain |-> [c EXCEPT !.is_executing = 1]]
    ELSE [ok |-> FALSE, chain |-> c]

\* The chain the threads share: one or more events, any fault mode, with or
\* without a failure handler.
InitThreads ==
    /\ InitContext
    /\ \E mode \in FaultToleranceModes, handler \in FailureHandlers,
          n \in 1..EVENTCHAINS_MAX_EVENTS :
          chain = [event_chain_create(mode) EXCEPT
                      !.events = [k \in 1..n |-> chainable_event_create(<<"e">>)],
                      !.event_capacity = n,
                      !.failure_handler = handler]
    /\ exec = NotExecuting
    /\ threads = NoThreads
    /\ NoCompiler

Running(t) == threads[t].stack /= <<>>

NoCrash == \A t \in Threads : threads[t].at /= "CRASHED"

\* Thread t after a step of its call that left chain, stack and result m.
ThreadAfter(t, m) ==
    [stack |-> m.stack,
     result |-> IF m.stack = <<>> THEN m.result ELSE NoResult,
     at |-> IF m.stack = <<>> THEN "RETURNED"
            ELSE IF Top(m.stack).pc = "crashed" THEN "CRASHED" ELSE "RUNNING"]

\* Thread t calls event_chain_execute(chain, &result_t): the reentrancy
\* check, and when it passes, the call up to its first callback or its
\* return.
ThreadExecutes(t) ==
    LET cas == ec_atomic_compare_exchange_strong(chain)
        m == Loop(cas.chain, <<ExecuteFrame>>, ExecuteFrame, 1)
    IN
    /\ NoCrash
    /\ ~Running(t)
    /\ IF cas.ok
       THEN /\ chain' = m.chain
            /\ threads' = [threads EXCEPT ![t] = ThreadAfter(t, m)]
       ELSE /\ chain' = ExecuteRejected(cas.chain)
            /\ threads' = [threads EXCEPT ![t] = [stack |-> <<>>, result |-> NoResult,
                                                  at |-> "REJECTED"]]

\* The event that thread t's call is running returns event_result, and the
\* call goes on to its next callback or to its return.
ThreadEventReturns(t, event_result, realloc_ok, lands) ==
    LET f == Top(threads[t].stack)
        m == AfterEvent(chain, threads[t].stack,
                        [f EXCEPT !.event_result = event_result, !.callable = event_result,
                                  !.outcomes = Append(@, event_result)],
                        realloc_ok, lands)
    IN
    /\ NoCrash
    /\ Running(t)
    /\ f.pc = "in_event"
    /\ chain' = m.chain
    /\ threads' = [threads EXCEPT ![t] = ThreadAfter(t, m)]

\* The failure handler that thread t's call is running returns
\* should_continue, and the call goes on.
ThreadHandlerReturns(t, should_continue, realloc_ok, lands) ==
    LET f == Top(threads[t].stack)
        m == RecordFailure(chain, threads[t].stack, f, should_continue, realloc_ok, lands)
    IN
    /\ NoCrash
    /\ Running(t)
    /\ f.pc = "in_handler"
    /\ chain' = m.chain
    /\ threads' = [threads EXCEPT ![t] = ThreadAfter(t, m)]

threadFrame == <<values, held, cleaned, ctxVars, concVars, last, exec, compilerVars>>

ThreadExecute == (\E t \in Threads : ThreadExecutes(t)) /\ UNCHANGED threadFrame

ThreadEventReturn ==
    (\E t \in Threads, event_result \in EventResults, realloc_ok \in BOOLEAN, lands \in BOOLEAN :
        ThreadEventReturns(t, event_result, realloc_ok, lands))
    /\ UNCHANGED threadFrame

ThreadHandlerReturn ==
    (\E t \in Threads, should_continue \in BOOLEAN, realloc_ok \in BOOLEAN, lands \in BOOLEAN :
        ThreadHandlerReturns(t, should_continue, realloc_ok, lands))
    /\ UNCHANGED threadFrame

NextThreads == ThreadExecute \/ ThreadEventReturn \/ ThreadHandlerReturn

SpecThreads == InitThreads /\ [][NextThreads]_vars

\* C30: if two threads call execute on the same chain concurrently, then in
\* every interleaving at most one of them runs the chain's events at any
\* time (the flag is 1 exactly while a call runs); a call that finds
\* is_executing already 1 returns success = false with zero failures,
\* without running any event and without resetting is_executing; and the
\* flag is cleared only by the call that set it, when it returns.
C30_OneExecuteAtATime ==
    /\ [](/\ Cardinality({t \in Threads : Running(t)}) <= 1
          /\ (chain.is_executing = 1) <=> (\E t \in Threads : Running(t)))
    /\ [][\A t \in Threads :
            (chain.is_executing = 1 /\ ThreadExecutes(t)) =>
                /\ threads'[t].at = "REJECTED"
                /\ threads'[t].stack = <<>>
                /\ ~threads'[t].result.success
                /\ threads'[t].result.failures = <<>>
                /\ threads'[t].result.started = 0
                /\ chain' = chain
                /\ \A u \in Threads \ {t} : threads'[u] = threads[u]]_vars
    /\ [][(chain.is_executing = 1 /\ chain'.is_executing = 0) =>
            \E t \in Threads :
                /\ Running(t) /\ threads'[t].at = "RETURNED" /\ threads'[t].result.accepted
                /\ \A u \in Threads \ {t} : threads'[u] = threads[u]]_vars

\* While thread 1 ran the second event of its call, thread 2 called execute
\* and was rejected.
C30_Witness ==
    /\ Running(1) /\ Top(threads[1].stack).pc = "in_event" /\ Top(threads[1].stack).i = 2
    /\ threads[2].at = "REJECTED"
    /\ chain.is_executing = 1

(***************************************************************************)
(* Lexer (src/src/tinyllvm_lexer.c).  A source string is a sequence of     *)
(* characters; lex.current counts the characters consumed, so the C        *)
(* source[current] is source[current + 1] here.  Tokens keep their kind,   *)
(* lexeme, line and column (the value of an integer literal is left out).  *)
(* The allocations of lex_source and lexer_add_token are taken to succeed: *)
(* the specification describes no lexer that runs out of memory.           *)
(***************************************************************************)
\* The longest source string the model lexes.
MaxSourceLength == 4

\* The characters of the model's source strings: two letters (which spell
\* the keyword "if"), a digit, white space, the characters of comments and
\* of the operators / and *, one half of &&, and a character no token
\* starts with.
LexAlphabet == {"i", "f", "1", " ", "\n", "/", "*", "&", "@"}

RECURSIVE Strings(_, _)
\* The strings over alphabet of length at most n.
Strings(alphabet, n) ==
    IF n = 0 THEN {<<>>}
    ELSE LET shorter == Strings(alphabet, n - 1) IN
         shorter \cup {Append(w, c) : w \in {v \in shorter : Len(v) = n - 1}, c \in alphabet}

Sources == Strings(LexAlphabet, MaxSourceLength)

\* What lexer_peek returns at the end of the source: '\0'.
NUL == ""

Alpha ==
    {"a", "b", "c", "d", "e", "f", "g", "h", "i", "j", "k", "l", "m",
     "n", "o", "p", "q", "r", "s", "t", "u", "v", "w", "x", "y", "z",
     "A", "B", "C", "D", "E", "F", "G", "H", "I", "J", "K", "L", "M",
     "N", "O", "P", "Q", "R", "S", "T", "U", "V", "W", "X", "Y", "Z",
     "_"}

Digits == {"0", "1", "2", "3", "4", "5", "6", "7", "8", "9"}

\* Lexer lex = { .source = source_code, .length = strlen(source_code), ... }
\* with the empty TokenList lex_source allocates for it.
Lexer(source_code) ==
    [pc |-> "scanning", source |-> source_code, length |-> Len(source_code),
     current |-> 0, line |-> 1, column |-> 0, tokens |-> <<>>]

lexer_is_at_end(L) == L.current >= L.length

lexer_peek(L) == IF lexer_is_at_end(L) THEN NUL ELSE L.source[L.current + 1]

lexer_peek_next(L) == IF L.current + 1 >= L.length THEN NUL ELSE L.source[L.current + 2]

\* lexer_advance: the lexer afterwards (the character it returns is the one
\* lexer_peek returned before).
lexer_advance(L) ==
    IF lexer_is_at_end(L) THEN L
    ELSE LET c == L.source[L.current + 1] IN
         [L EXCEPT !.current = @ + 1,
                   !.line = IF c = "\n" THEN @ + 1 ELSE @,
                   !.column = IF c = "\n" THEN 0 ELSE @ + 1]

\* lexer_match: whether expected was next, and the lexer afterwards.
lexer_match(L, expected) ==
    IF lexer_is_at_end(L) \/ L.source[L.current + 1] /= expected
    THEN [ok |-> FALSE, lex |-> L]
    ELSE [ok |-> TRUE, lex |-> lexer_advance(L)]

\* token_create(kind, lexeme, length, line, column); a NULL lexeme is <<>>.
token_create(kind, lexeme, line, column) ==
    [kind |-> kind, lexeme |-> lexeme, line |-> line, column |-> column]

\* lexer_add_token: the token array grows as needed and takes the token.
lexer_add_token(L, kind, lexeme, line, column) ==
    [L EXCEPT !.tokens = Append(@, token_create(kind, lexeme, line, column))]

is_alpha(c) == c \in Alpha

is_digit(c) == c \in Digits

is_alnum(c) == is_alpha(c) \/ is_digit(c)

RECURSIVE SkipLineComment(_)
\* skip_whitespace, single-line comment: up to the newline or the end.
SkipLineComment(L) ==
    IF ~lexer_is_at_end(L) /\ lexer_peek(L) /= "\n"
    THEN SkipLineComment(lexer_advance(L)) ELSE L

RECURSIVE SkipBlockComment(_)
\* skip_whitespace, multi-line comment after its opening: through the
\* closing */, or to the end of the source when there is none.
SkipBlockComment(L) ==
    IF lexer_is_at_end(L) THEN L
    ELSE IF lexer_peek(L) = "*" /\ lexer_peek_next(L) = "/"
    THEN lexer_advance(lexer_advance(L))
    ELSE SkipBlockComment(lexer_advance(L))

RECURSIVE skip_whitespace(_)
skip_whitespace(L) ==
    IF lexer_is_at_end(L) THEN L
    ELSE LET c == lexer_peek(L) IN
         IF c \in {" ", "\r", "\t", "\n"} THEN skip_whitespace(lexer_advance(L))
         ELSE IF c = "/" /\ lexer_peek_next(L) = "/" THEN skip_whitespace(SkipLineComment(L))
         ELSE IF c = "/" /\ lexer_peek_next(L) = "*"
         THEN skip_whitespace(SkipBlockComment(lexer_advance(lexer_advance(L))))
         ELSE L

check_keyword(lexeme, keyword, kind) ==
    IF lexeme = keyword THEN kind ELSE "TOKEN_IDENTIFIER"

identifier_type(lexeme) ==
    LET c == lexeme[1] IN
    IF c = "b" THEN check_keyword(lexeme, <<"b", "o", "o", "l">>, "TOKEN_BOOL")
    ELSE IF c = "e" THEN check_keyword(lexeme, <<"e", "l", "s", "e">>, "TOKEN_ELSE")
    ELSE IF c = "f" THEN
        (IF Len(lexeme) > 1 /\ lexeme[2] = "u"
         THEN check_keyword(lexeme, <<"f", "u", "n", "c">>, "TOKEN_FUNC")
         ELSE IF Len(lexeme) > 1 /\ lexeme[2] = "a"
         THEN check_keyword(lexeme, <<"f", "a", "l", "s", "e">>, "TOKEN_FALSE")
         ELSE "TOKEN_IDENTIFIER")
    ELSE IF c = "i" THEN
        (IF Len(lexeme) > 1 /\ lexeme[2] = "f"
         THEN check_keyword(lexeme, <<"i", "f">>, "TOKEN_IF")
         ELSE check_keyword(lexeme, <<"i", "n", "t">>, "TOKEN_INT"))
    ELSE IF c = "r" THEN check_keyword(lexeme, <<"r", "e", "t", "u", "r", "n">>, "TOKEN_RETURN")
    ELSE IF c = "t" THEN check_keyword(lexeme, <<"t", "r", "u", "e">>, "TOKEN_TRUE")
    ELSE IF c = "v" THEN check_keyword(lexeme, <<"v", "a", "r">>, "TOKEN_VAR")
    ELSE IF c = "w" THEN check_keyword(lexeme, <<"w", "h", "i", "l", "e">>, "TOKEN_WHILE")
    ELSE "TOKEN_IDENTIFIER"

RECURSIVE AdvanceWhile(_, _)
\* while (is_alnum(lexer_peek(lex))) lexer_advance(lex), and the same loop
\* with is_digit: the lexer past the characters of class.
AdvanceWhile(L, class) ==
    IF lexer_peek(L) \in class THEN AdvanceWhile(lexer_advance(L), class) ELSE L

\* scan_identifier, called after the first character was consumed.
scan_identifier(L) ==
    LET start == L.current - 1
        start_column == L.column - 1
        M == AdvanceWhile(L, Alpha \cup Digits)
        lexeme == SubSeq(M.source, start + 1, M.current)
    IN lexer_add_token(M, identifier_type(lexeme), lexeme, M.line, start_column)

\* scan_number, called after the first digit was consumed.
scan_number(L) ==
    LET start == L.current - 1
        start_column == L.column - 1
        M == AdvanceWhile(L, Digits)
        lexeme == SubSeq(M.source, start + 1, M.current)
    IN lexer_add_token(M, "TOKEN_INT_LITERAL", lexeme, M.line, start_column)

\* The tokens of one character.
SingleCharacterTokens ==
    [c \in {"(", ")", "{", "}", ";", ":", ",", "+", "-", "*", "/", "%"} |->
        CASE c = "(" -> "TOKEN_LPAREN" [] c = ")" -> "TOKEN_RPAREN"
          [] c = "{" -> "TOKEN_LBRACE" [] c = "}" -> "TOKEN_RBRACE"
          [] c = ";" -> "TOKEN_SEMICOLON" [] c = ":" -> "TOKEN_COLON"
          [] c = "," -> "TOKEN_COMMA" [] c = "+" -> "TOKEN_PLUS"
          [] c = "-" -> "TOKEN_MINUS" [] c = "*" -> "TOKEN_STAR"
          [] c = "/" -> "TOKEN_SLASH" [] c = "%" -> "TOKEN_PERCENT"]

\* The tokens of one character that a second character extends: the second
\* character, the kind with it and the kind without it.
TwoCharacterTokens ==
    [c \in {"=", "!", "<", ">", "&", "|"} |->
        CASE c = "=" -> [second |-> "=", both |-> "TOKEN_EQ", alone |-> "TOKEN_ASSIGN"]
          [] c = "!" -> [second |-> "=", both |-> "TOKEN_NE", alone |-> "TOKEN_NOT"]
          [] c = "<" -> [second |-> "=", both |-> "TOKEN_LE", alone |-> "TOKEN_LT"]
          [] c = ">" -> [second |-> "=", both |-> "TOKEN_GE", alone |-> "TOKEN_GT"]
          [] c = "&" -> [second |-> "&", both |-> "TOKEN_AND", alone |-> "TOKEN_ERROR"]
          [] c = "|" -> [second |-> "|", both |-> "TOKEN_OR", alone |-> "TOKEN_ERROR"]]

\* scan_token
scan_token(L) ==
    LET W == skip_whitespace(L) IN
    IF lexer_is_at_end(W) THEN lexer_add_token(W, "TOKEN_EOF", <<>>, W.line, W.column)
    ELSE LET start_column == W.column
             c == lexer_peek(W)
             A == lexer_advance(W)
         IN IF is_alpha(c) THEN scan_identifier(A)
            ELSE IF is_digit(c) THEN scan_number(A)
            ELSE IF c \in DOMAIN SingleCharacterTokens
            THEN lexer_add_token(A, SingleCharacterTokens[c], <<c>>, A.line, start_column)
            ELSE IF c \in DOMAIN TwoCharacterTokens
            THEN LET t == TwoCharacterTokens[c]
                     m == lexer_match(A, t.second)
                 IN IF m.ok
                    THEN lexer_add_token(m.lex, t.both, <<c, t.second>>, m.lex.line, start_column)
                    ELSE lexer_add_token(A, t.alone, <<c>>, A.line, start_column)
            ELSE lexer_add_token(A, "TOKEN_ERROR", <<c>>, A.line, start_column)

\* The last token of the list is an EOF token.
EndsWithEof(tokens) == tokens /= <<>> /\ tokens[Len(tokens)].kind = "TOKEN_EOF"

\* Mutant of EnsureEof: the list is returned as the loop left it.
EnsureEof_left_out(L) == L

\* lex_source, "Ensure we have EOF token".
EnsureEof(L) ==
    IF ~EndsWithEof(L.tokens)
    THEN lexer_add_token(L, "TOKEN_EOF", <<>>, L.line, L.column)
    ELSE L

\* lex_source is called with a source string.
InitLex ==
    /\ InitContext
    /\ chain = event_chain_create("STRICT")
    /\ exec = NotExecuting
    /\ threads = NoThreads
    /\ \E source_code \in Sources : lex = Lexer(source_code)
    /\ tc = [pc |-> "none"]
    /\ comp = [pc |-> "none"]

lexFrame == <<values, held, cleaned, ctxVars, concVars, last, chainVars, tc, comp>>

\* lex_source, one turn of its loop: scan_token, then "Stop if we hit EOF".
ScanToken ==
    LET L == scan_token(lex) IN
    /\ lex.pc = "scanning"
    /\ ~lexer_is_at_end(lex)
    /\ lex' = [L EXCEPT !.pc = IF EndsWithEof(L.tokens) THEN "break" ELSE "scanning"]
    /\ UNCHANGED lexFrame

\* lex_source after its loop, left by its condition or by the break: it
\* returns the token list.
LexReturn ==
    /\ \/ lex.pc = "scanning" /\ lexer_is_at_end(lex)
       \/ lex.pc = "break"
    /\ lex' = [EnsureEof(lex) EXCEPT !.pc = "returned"]
    /\ UNCHANGED lexFrame

NextLex == ScanToken \/ LexReturn

SpecLex == InitLex /\ [][NextLex]_vars

\* The positions of the EOF tokens in a token list.
EofPositions(tokens) == {k \in 1..Len(tokens) : tokens[k].kind = "TOKEN_EOF"}

type_int == [kind |-> "TYPE_INT"]

type_bool == [kind |-> "TYPE_BOOL"]

type_void == [kind |-> "TYPE_VOID"]

type_to_string(type) ==
    CASE type.kind = "TYPE_INT" -> "int"
      [] type.kind = "TYPE_BOOL" -> "bool"
      [] type.kind = "TYPE_VOID" -> "void"
      [] OTHER -> "unknown"

type_equals(a, b) == a.kind = b.kind

Arithmetic == {"EXPR_ADD", "EXPR_SUB", "EXPR_MUL", "EXPR_DIV", "EXPR_MOD"}

Comparisons == {"EXPR_LT", "EXPR_LE", "EXPR_GT", "EXPR_GE"}

Equalities == {"EXPR_EQ", "EXPR_NE"}

Logical == {"EXPR_AND", "EXPR_OR"}

\* A missing expression (the NULL expr of a bare return).
NoExpr == [kind |-> "NULL", type |-> type_int, name |-> "", args |-> <<>>]

ast_expr_int_literal == [kind |-> "EXPR_INT_LITERAL", type |-> type_int, name |-> "", args |-> <<>>]

ast_expr_bool_literal == [kind |-> "EXPR_BOOL_LITERAL", type |-> type_bool, name |-> "", args |-> <<>>]

ast_expr_var(name) == [kind |-> "EXPR_VAR", type |-> type_int, name |-> name, args |-> <<>>]

ast_expr_binary(kind, left, right) ==
    [kind |-> kind,
     type |-> IF kind \in Equalities \cup Comparisons \cup Logical THEN type_bool ELSE type_int,
     name |-> "",
     args |-> <<left, right>>]

ast_expr_unary(kind, operand) == [kind |-> kind, type |-> type_bool, name |-> "", args |-> <<operand>>]

ast_expr_call(func_name, args) == [kind |-> "EXPR_CALL", type |-> type_int, name |-> func_name, args |-> args]

ast_stmt_var_decl(name, type, init_expr) ==
    [kind |-> "STMT_VAR_DECL", name |-> name, type |-> type, expr |-> init_expr, statements |-> <<>>]

ast_stmt_assign(name, expr) ==
    [kind |-> "STMT_ASSIGN", name |-> name, type |-> type_int, expr |-> expr, statements |-> <<>>]

\* A missing statement (the NULL else_block of an if).
NoStmt == [kind |-> "NULL", name |-> "", type |-> type_int, expr |-> NoExpr, statements |-> <<>>]

ast_stmt_if(condition, then_block, else_block) ==
    [kind |-> "STMT_IF", name |-> "", type |-> type_int, expr |-> condition,
     statements |-> IF else_block = NoStmt THEN <<then_block>> ELSE <<then_block, else_block>>]

ast_stmt_while(condition, body) ==
    [kind |-> "STMT_WHILE", name |-> "", type |-> type_int, expr |-> condition, statements |-> <<body>>]

ast_stmt_return(expr) ==
    [kind |-> "STMT_RETURN", name |-> "", type |-> type_int, expr |-> expr, statements |-> <<>>]

ast_stmt_expr(expr) ==
    [kind |-> "STMT_EXPR", name |-> "", type |-> type_int, expr |-> expr, statements |-> <<>>]

ast_stmt_block(statements) ==
    [kind |-> "STMT_BLOCK", name |-> "", type |-> type_int, expr |-> NoExpr, statements |-> statements]

ast_func_create(name, params, return_type, body) ==
    [name |-> name, params |-> params, return_type |-> return_type, body |-> body]

\* struct Symbol.
Symbol(name, type, is_function, param_types) ==
    [name |-> name, type |-> type, is_function |-> is_function,
     param_count |-> Len(param_types), param_types |-> param_types]

NoSymbol == [name |-> "", type |-> type_void, is_function |-> FALSE,
             param_count |-> 0, param_types |-> <<>>]

\* symbol_table_create: a table is the sequence of its symbols, and the
\* scopes are the sequence of the tables from the globals to the current
\* scope, each table the parent of the next.
symbol_table_create(scopes) == Append(scopes, <<>>)

symbol_table_destroy(scopes) == SubSeq(scopes, 1, Len(scopes) - 1)

\* The first symbol of a table with the name, NoSymbol without one.
FindSymbol(table, name) ==
    LET found == {i \in 1..Len(table) : table[i].name = name} IN
    IF found = {} THEN NoSymbol
    ELSE table[CHOOSE i \in found : \A j \in found : i <= j]

RECURSIVE symbol_table_lookup_outer_first(_, _)
symbol_table_lookup_outer_first(scopes, name) ==
    IF scopes = <<>> THEN NoSymbol
    ELSE IF symbol_table_lookup_outer_first(symbol_table_destroy(scopes), name) /= NoSymbol
         THEN symbol_table_lookup_outer_first(symbol_table_destroy(scopes), name)
         ELSE FindSymbol(scopes[Len(scopes)], name)

\* symbol_table_lookup: the current scope, then the parent scopes.
RECURSIVE symbol_table_lookup(_, _)
symbol_table_lookup(scopes, name) ==
    IF scopes = <<>> THEN NoSymbol
    ELSE IF FindSymbol(scopes[Len(scopes)], name) /= NoSymbol
         THEN FindSymbol(scopes[Len(scopes)], name)
         ELSE symbol_table_lookup(symbol_table_destroy(scopes), name)

symbol_table_add(table, name, type, is_function, param_types) ==
    IF FindSymbol(table, name) /= NoSymbol
    THEN [ok |-> FALSE, table |-> table]
    ELSE [ok |-> TRUE, table |-> Append(table, Symbol(name, type, is_function, param_types))]

\* The table of the current scope, and the scopes with that table replaced.
CurrentScope(scopes) == scopes[Len(scopes)]

WithCurrentScope(scopes, table) == [scopes EXCEPT ![Len(scopes)] = table]

\* The TypeChecker struct; error_msg is kept as the format and its
\* arguments.
NoError == [format |-> "", args |-> <<>>]

TypeChecker(globals) ==
    [scopes |-> <<globals>>,
     current_function_return_type |-> type_int,
     error_msg |-> NoError,
     has_error |-> FALSE]

type_error(T, format, args) ==
    [T EXCEPT !.error_msg = [format |-> format, args |-> args], !.has_error = TRUE]

\* The result of check_expression and check_statement: the return value,
\* the type checker and the node as the call leaves them.
Checked(ok, T, node) == [ok |-> ok, tc |-> T, node |-> node]

\* The operand type a binary operator requires, the type it has, and the
\* format of its error.
BinaryRule(kind) ==
    CASE kind \in Arithmetic ->
             [operand |-> "TYPE_INT", type |-> type_int,
              format |-> "Arithmetic operator requires int, got %s"]
      [] kind \in Comparisons ->
             [operand |-> "TYPE_INT", type |-> type_bool,
              format |-> "Comparison requires int, got %s"]
      [] kind \in Logical ->
             [operand |-> "TYPE_BOOL", type |-> type_bool,
              format |-> "Logical operator requires bool, got %s"]

RECURSIVE check_expression(_, _)
RECURSIVE CheckArguments(_, _, _, _)
check_expression(T, expr) ==
    CASE expr.kind = "NULL" -> Checked(FALSE, T, expr)
      [] expr.kind = "EXPR_INT_LITERAL" -> Checked(TRUE, T, [expr EXCEPT !.type = type_int])
      [] expr.kind = "EXPR_BOOL_LITERAL" -> Checked(TRUE, T, [expr EXCEPT !.type = type_bool])
      [] expr.kind = "EXPR_VAR" ->
             LET sym == symbol_table_lookup(T.scopes, expr.name) IN
             IF sym = NoSymbol
             THEN Checked(FALSE, type_error(T, "Undefined variable '%s'", <<expr.name>>), expr)
             ELSE IF sym.is_function
             THEN Checked(FALSE, type_error(T, "'%s' is a function, not a variable", <<expr.name>>), expr)
             ELSE Checked(TRUE, T, [expr EXCEPT !.type = sym.type])
      [] expr.kind \in Arithmetic \cup Comparisons \cup Logical ->
             LET rule == BinaryRule(expr.kind)
                 left == check_expression(T, expr.args[1])
                 e1 == [expr EXCEPT !.args[1] = left.node]
                 right == check_expression(left.tc, expr.args[2])
                 e2 == [e1 EXCEPT !.args[2] = right.node]
             IN
             IF ~left.ok THEN Checked(FALSE, left.tc, e1)
             ELSE IF ~right.ok THEN Checked(FALSE, right.tc, e2)
             ELSE IF left.node.type.kind /= rule.operand
             THEN Checked(FALSE, type_error(right.tc, rule.format, <<type_to_string(left.node.type)>>), e2)
             ELSE IF right.node.type.kind /= rule.operand
             THEN Checked(FALSE, type_error(right.tc, rule.format, <<type_to_string(right.node.type)>>), e2)
             ELSE Checked(TRUE, right.tc, [e2 EXCEPT !.type = rule.type])
      [] expr.kind \in Equalities ->
             LET left == check_expression(T, expr.args[1])
                 e1 == [expr EXCEPT !.args[1] = left.node]
                 right == check_expression(left.tc, expr.args[2])
                 e2 == [e1 EXCEPT !.args[2] = right.node]
             IN
             IF ~left.ok THEN Checked(FALSE, left.tc, e1)
             ELSE IF ~right.ok THEN Checked(FALSE, right.tc, e2)
             ELSE IF ~type_equals(left.node.type, right.node.type)
             THEN Checked(FALSE,
                          type_error(right.tc, "Equality comparison requires same types, got %s and %s",
                                     <<type_to_string(left.node.type), type_to_string(right.node.type)>>),
                          e2)
             ELSE Checked(TRUE, right.tc, [e2 EXCEPT !.type = type_bool])
      [] expr.kind = "EXPR_NOT" ->
             LET operand == check_expression(T, expr.args[1])
                 e1 == [expr EXCEPT !.args[1] = operand.node]
             IN
             IF ~operand.ok THEN Checked(FALSE, operand.tc, e1)
             ELSE IF operand.node.type.kind /= "TYPE_BOOL"
             THEN Checked(FALSE,
                          type_error(operand.tc, "Logical NOT requires bool, got %s",
                                     <<type_to_string(operand.node.type)>>),
                          e1)
             ELSE Checked(TRUE, operand.tc, [e1 EXCEPT !.type = type_bool])
      [] expr.kind = "EXPR_CALL" ->
             LET sym == symbol_table_lookup(T.scopes, expr.name)
                 args == CheckArguments(T, sym, expr, 1)
             IN
             IF sym = NoSymbol
             THEN Checked(FALSE, type_error(T, "Undefined function '%s'", <<expr.name>>), expr)
             ELSE IF ~sym.is_function
             THEN Checked(FALSE, type_error(T, "'%s' is not a function", <<expr.name>>), expr)
             ELSE IF Len(expr.args) /= sym.param_count
             THEN Checked(FALSE,
                          type_error(T, "Function '%s' expects %zu arguments, got %zu",
                                     <<expr.name, ToString(sym.param_count), ToString(Len(expr.args))>>),
                          expr)
             ELSE IF ~args.ok THEN args
             ELSE Checked(TRUE, args.tc, [args.node EXCEPT !.type = sym.type])
      [] OTHER -> Checked(FALSE, type_error(T, "Unknown expression kind", <<>>), expr)

\* check_expression, EXPR_CALL: the loop over the arguments, from argument i.
CheckArguments(T, sym, expr, i) ==
    IF i > Len(expr.args) THEN Checked(TRUE, T, expr)
    ELSE LET arg == check_expression(T, expr.args[i])
             e1 == [expr EXCEPT !.args[i] = arg.node]
         IN
         IF ~arg.ok THEN Checked(FALSE, arg.tc, e1)
         ELSE IF ~type_equals(arg.node.type, sym.param_types[i])
         THEN Checked(FALSE,
                      type_error(arg.tc, "Function '%s' parameter %zu expects %s, got %s",
                                 <<expr.name, ToString(i), type_to_string(sym.param_types[i]),
                                   type_to_string(arg.node.type)>>),
                      e1)
         ELSE CheckArguments(arg.tc, sym, e1, i + 1)
RECURSIVE check_statement(_, _)
RECURSIVE CheckStatements(_, _, _)
check_statement(T, stmt) ==
    CASE stmt.kind = "STMT_VAR_DECL" ->
             LET init == check_expression(T, stmt.expr)
                 s1 == [stmt EXCEPT !.expr = init.node]
                 s2 == [s1 EXCEPT !.type = init.node.type]
                 added == symbol_table_add(CurrentScope(init.tc.scopes), stmt.name, s2.type, FALSE, <<>>)
             IN
             IF ~init.ok THEN Checked(FALSE, init.tc, s1)
             ELSE IF ~added.ok
             THEN Checked(FALSE, type_error(init.tc, "Variable '%s' already declared", <<stmt.name>>), s2)
             ELSE Checked(TRUE, [init.tc EXCEPT !.scopes = WithCurrentScope(@, added.table)], s2)
      [] stmt.kind = "STMT_ASSIGN" ->
             LET sym == symbol_table_lookup(T.scopes, stmt.name)
                 value == check_expression(T, stmt.expr)
                 s1 == [stmt EXCEPT !.expr = value.node]
             IN
             IF sym = NoSymbol
             THEN Checked(FALSE, type_error(T, "Undefined variable '%s'", <<stmt.name>>), stmt)
             ELSE IF sym.is_function
             THEN Checked(FALSE, type_error(T, "Cannot assign to function '%s'", <<stmt.name>>), stmt)
             ELSE IF ~value.ok THEN Checked(FALSE, value.tc, s1)
             ELSE IF ~type_equals(sym.type, value.node.type)
             THEN Checked(FALSE,
                          type_error(value.tc, "Cannot assign %s to variable of type %s",
                                     <<type_to_string(value.node.type), type_to_string(sym.type)>>),
                          s1)
             ELSE Checked(TRUE, value.tc, s1)
      [] stmt.kind = "STMT_IF" ->
             LET condition == check_expression(T, stmt.expr)
                 s1 == [stmt EXCEPT !.expr = condition.node]
                 then_block == check_statement(condition.tc, stmt.statements[1])
                 s2 == [s1 EXCEPT !.statements[1] = then_block.node]
                 else_block == check_statement(then_block.tc, stmt.statements[2])
                 s3 == [s2 EXCEPT !.statements[2] = else_block.node]
             IN
             IF ~condition.ok THEN Checked(FALSE, condition.tc, s1)
             ELSE IF condition.node.type.kind /= "TYPE_BOOL"
             THEN Checked(FALSE,
                          type_error(condition.tc, "If condition must be bool, got %s",
                                     <<type_to_string(condition.node.type)>>),
                          s1)
             ELSE IF ~then_block.ok THEN Checked(FALSE, then_block.tc, s2)
             ELSE IF Len(stmt.statements) = 2
             THEN Checked(else_block.ok, else_block.tc, s3)
             ELSE Checked(TRUE, then_block.tc, s2)
      [] stmt.kind = "STMT_WHILE" ->
             LET condition == check_expression(T, stmt.expr)
                 s1 == [stmt EXCEPT !.expr = condition.node]
                 body == check_statement(condition.tc, stmt.statements[1])
                 s2 == [s1 EXCEPT !.statements[1] = body.node]
             IN
             IF ~condition.ok THEN Checked(FALSE, condition.tc, s1)
             ELSE IF condition.node.type.kind /= "TYPE_BOOL"
             THEN Checked(FALSE,
                          type_error(condition.tc, "While condition must be bool, got %s",
                                     <<type_to_string(condition.node.type)>>),
                          s1)
             ELSE Checked(body.ok, body.tc, s2)
      [] stmt.kind = "STMT_RETURN" ->
             LET value == check_expression(T, stmt.expr)
                 s1 == [stmt EXCEPT !.expr = value.node]
             IN
             IF stmt.expr /= NoExpr
             THEN IF ~value.ok THEN Checked(FALSE, value.tc, s1)
                  ELSE IF ~type_equals(value.node.type, T.current_function_return_type)
                  THEN Checked(FALSE,
                               type_error(value.tc, "Return type mismatch: expected %s, got %s",
                                          <<type_to_string(T.current_function_return_type),
                                            type_to_string(value.node.type)>>),
                               s1)
                  ELSE Checked(TRUE, value.tc, s1)
             ELSE IF T.current_function_return_type.kind /= "TYPE_VOID"
                  THEN Checked(FALSE,
                               type_error(T, "Function must return %s",
                                          <<type_to_string(T.current_function_return_type)>>),
                               stmt)
                  ELSE Checked(TRUE, T, stmt)
      [] stmt.kind = "STMT_EXPR" ->
             LET value == check_expression(T, stmt.expr) IN
             Checked(value.ok, value.tc, [stmt EXCEPT !.expr = value.node])
      [] stmt.kind = "STMT_BLOCK" ->
             LET inner == CheckStatements([T EXCEPT !.scopes = symbol_table_create(@)], stmt, 1) IN
             Checked(inner.ok, [inner.tc EXCEPT !.scopes = symbol_table_destroy(@)], inner.node)
      [] OTHER -> Checked(FALSE, type_error(T, "Unknown statement kind", <<>>), stmt)

\* check_statement, STMT_BLOCK: the loop over the statements of the block,
\* from statement i; it breaks at the first statement that fails.
CheckStatements(T, block, i) ==
    IF i > Len(block.statements) THEN Checked(TRUE, T, block)
    ELSE LET checked == check_statement(T, block.statements[i])
             b1 == [block EXCEPT !.statements[i] = checked.node]
         IN
         IF ~checked.ok THEN Checked(FALSE, checked.tc, b1)
         ELSE CheckStatements(checked.tc, b1, i + 1)
\* type_check_program, "Add built-in print function".
BuiltinGlobals == symbol_table_add(<<>>, "print", type_void, TRUE, <<type_int>>).table

\* The parameter types of a function, as the first pass collects them.
ParamTypes(func) == [j \in 1..Len(func.params) |-> func.params[j].type]

\* type_check_program, second pass, "Add parameters": the function scope
\* after the loop from parameter j; the return value of symbol_table_add is
\* not looked at.
RECURSIVE AddParameters(_, _, _)
AddParameters(func_scope, params, j) ==
    IF j > Len(params) THEN func_scope
    ELSE AddParameters(symbol_table_add(func_scope, params[j].name, params[j].type, FALSE, <<>>).table,
                       params, j + 1)

\* compiler_type_checker_event: the EventResult it returns after
\* type_check_program returned ok.  The failure message is
\* "Type checking failed: " followed by the error of the type checker, of
\* which the result keeps EVENTCHAINS_MAX_ERROR_LENGTH - 1 characters; the
\* model keeps the fixed part of it.
TypeCheckingFailed ==
    <<"T", "y", "p", "e", " ", "c", "h", "e", "c", "k", "i", "n", "g", " ",
      "f", "a", "i", "l", "e", "d", ":", " ">>

TypeCheckerEventResult(ok) ==
    IF ok THEN event_result_success
    ELSE event_result_failure(TypeCheckingFailed, "INVALID_PARAMETER", "ERROR_DETAIL_FULL")

\* ---- the programs handed to the type checker ----

MaxParams == 2

MaxArgs == 1

MaxStatements == 2

MaxBlockStatements == 2

\* The sequences of at most n elements of a set.
RECURSIVE SeqUpTo(_, _)
SeqUpTo(S, n) ==
    IF n = 0 THEN {<<>>}
    ELSE SeqUpTo(S, n - 1) \cup {Append(s, x) : s \in {t \in SeqUpTo(S, n - 1) : Len(t) = n - 1}, x \in S}

Param(name, type) == [name |-> name, type |-> type]

Params == {Param("x", type_int), Param("x", type_bool), Param("y", type_int)}

ReturnTypes == {type_int, type_bool}

\* Programs about calls and parameters: one function f, its body a
\* sequence of declarations, expression statements and returns over
\* literals, the variable x and calls of f and print.
CallAtoms == {ast_expr_int_literal, ast_expr_bool_literal, ast_expr_var("x")}

CallExprs ==
    CallAtoms \cup
    {ast_expr_call(name, args) :
        name \in {"f", "print"},
        args \in SeqUpTo({ast_expr_int_literal, ast_expr_var("x")}, MaxArgs)}

CallStmts ==
    {ast_stmt_var_decl("x", type_int, e) : e \in CallExprs}
    \cup {ast_stmt_expr(e) : e \in CallExprs}
    \cup {ast_stmt_return(e) : e \in CallExprs \cup {NoExpr}}

CallPrograms(max_params, max_statements) ==
    LET param_lists == SeqUpTo(Params, max_params)
        bodies == SeqUpTo(CallStmts, max_statements)
    IN {<<ast_func_create("f", params, return_type, ast_stmt_block(body))>> :
           params \in param_lists, return_type \in ReturnTypes, body \in bodies}

\* Programs about scopes: one function f, its body a statement, a nested
\* block (bare or the body of a while) and a statement, the statements
\* declarations of the names x and f and assignments to x.
ScopeAtoms == {ast_expr_int_literal, ast_expr_bool_literal, ast_expr_var("x")}

ScopeStmts ==
    {ast_stmt_var_decl(name, type_int, e) : name \in {"x", "f"}, e \in ScopeAtoms}
    \cup {ast_stmt_assign("x", e) : e \in ScopeAtoms}

NestedBlocks(max_statements) ==
    LET blocks == {ast_stmt_block(body) : body \in SeqUpTo(ScopeStmts, max_statements)} IN
    blocks \cup {ast_stmt_while(ast_expr_bool_literal, block) : block \in blocks}

ScopePrograms(max_statements) ==
    {<<ast_func_create("f", params, type_int, ast_stmt_block(before \o <<nested>> \o after))>> :
        params \in {<<>>, <<Param("x", type_bool)>>},
        before \in SeqUpTo(ScopeStmts, 1),
        nested \in NestedBlocks(max_statements),
        after \in SeqUpTo(ScopeStmts, 1)}

\* Programs of two functions with the names f, g and print, the first
\* calling one of them, the second with an if, with or without an else, and
\* a binary operator.
PairPrograms ==
    {<<ast_func_create(first, <<>>, type_int,
                ast_stmt_block(<<ast_stmt_return(ast_expr_call(callee, <<>>))>>)),
       ast_func_create(second, <<Param("x", type_bool)>>, type_bool,
                ast_stmt_block(
                    <<ast_stmt_if(ast_expr_var("x"),
                                  ast_stmt_block(<<ast_stmt_return(ast_expr_unary("EXPR_NOT", ast_expr_var("x")))>>),
                                  else_block),
                      ast_stmt_return(ast_expr_binary(op, ast_expr_call(first, <<>>), ast_expr_int_literal))>>))>> :
        first \in {"f", "print"}, second \in {"f", "g"}, callee \in {"f", "g"},
        else_block \in {NoStmt, ast_stmt_block(<<ast_stmt_return(ast_expr_var("x"))>>)},
        op \in {"EXPR_ADD", "EXPR_LT", "EXPR_EQ", "EXPR_AND"}}

ProgramKinds == {"calls", "scopes", "pairs"}

\* The programs of a kind with at most max_params parameters,
\* max_statements statements in the body of f and max_block_statements in
\* a nested block.
Programs(kind, max_params, max_statements, max_block_statements) ==
    CASE kind = "calls" -> CallPrograms(max_params, max_statements)
      [] kind = "scopes" -> ScopePrograms(max_block_statements)
      [] kind = "pairs" -> PairPrograms

\* ---- type_check_program, step by step ----

\* type_check_program is called with a program.
InitType ==
    /\ InitContext
    /\ chain = event_chain_create("STRICT")
    /\ exec = NotExecuting
    /\ threads = NoThreads
    /\ lex = [pc |-> "none"]
    /\ comp = [pc |-> "none"]
    /\ \E kind \in ProgramKinds :
       \E program \in Programs(kind, MaxParams, MaxStatements, MaxBlockStatements) :
           tc = [pc |-> "called", program |-> program, T |-> TypeChecker(<<>>), i |-> 1,
                 ok |-> FALSE, error_msg |-> NoError, event_result |-> Indeterminate]

typeFrame == <<values, held, cleaned, ctxVars, concVars, last, chainVars, lex, comp>>

\* type_check_program returns ok with the error message, and
\* compiler_type_checker_event returns its result.
TypeCheckReturns(ok, error_msg) ==
    [tc EXCEPT !.pc = "returned", !.ok = ok, !.error_msg = error_msg,
               !.T = [@ EXCEPT !.scopes = <<>>],
               !.event_result = TypeCheckerEventResult(ok)]

\* type_check_program up to the first pass: the globals with print.
TypeCheckStart ==
    /\ tc.pc = "called"
    /\ tc' = [tc EXCEPT !.pc = "signatures", !.T = TypeChecker(BuiltinGlobals)]
    /\ UNCHANGED typeFrame

\* First pass, function i: its signature is registered, or it is a
\* duplicate.
RegisterSignature ==
    /\ tc.pc = "signatures"
    /\ tc.i <= Len(tc.program)
    /\ LET func == tc.program[tc.i]
           added == symbol_table_add(tc.T.scopes[1], func.name, func.return_type, TRUE, ParamTypes(func))
       IN tc' = IF ~added.ok
                THEN TypeCheckReturns(FALSE, [format |-> "Duplicate function '%s'", args |-> <<func.name>>])
                ELSE [tc EXCEPT !.T.scopes = <<added.table>>, !.i = @ + 1]
    /\ UNCHANGED typeFrame

\* Second pass, function i: its scope with the parameters, and its body.
CheckFunctionBody ==
    /\ tc.pc \in {"signatures", "bodies"}
    /\ tc.pc = "signatures" => tc.i > Len(tc.program)
    /\ LET i == IF tc.pc = "signatures" THEN 1 ELSE tc.i
           func == tc.program[i]
           func_scope == AddParameters(<<>>, func.params, 1)
           T == [tc.T EXCEPT !.scopes = Append(@, func_scope),
                             !.current_function_return_type = func.return_type]
           body == check_statement(T, func.body)
       IN /\ i <= Len(tc.program)
          /\ tc' = IF ~body.ok
                   THEN [TypeCheckReturns(FALSE, body.tc.error_msg) EXCEPT !.program[i].body = body.node]
                   ELSE [tc EXCEPT !.pc = "bodies", !.i = i + 1, !.program[i].body = body.node,
                                   !.T = [body.tc EXCEPT !.scopes = symbol_table_destroy(@)]]
    /\ UNCHANGED typeFrame

\* After the second pass: the globals are destroyed, the program is
\* accepted.
TypeCheckAccepts ==
    /\ tc.pc = "bodies"
    /\ tc.i > Len(tc.program)
    /\ tc' = TypeCheckReturns(TRUE, tc.error_msg)
    /\ UNCHANGED typeFrame

NextType == TypeCheckStart \/ RegisterSignature \/ CheckFunctionBody \/ TypeCheckAccepts

SpecType == InitType /\ [][NextType]_vars

\* A function of the program declares two parameters with the same name.
HasDuplicateParameter(program) ==
    \E i \in 1..Len(program) :
        \E j, k \in 1..Len(program[i].params) :
            j < k /\ program[i].params[j].name = program[i].params[k].name

\* C25: the type checker rejects every program with a function that
\* declares two parameters with the same name: type_check_program returns
\* false and the TypeChecker event fails.
C25_DuplicateParameterRejected ==
    tc.pc = "returned" /\ HasDuplicateParameter(tc.program) =>
        ~tc.ok /\ ~tc.event_result.success

\* The nodes of an expression: the expression and the nodes of its
\* operands.
RECURSIVE ExprNodes(_)
ExprNodes(expr) ==
    IF expr = NoExpr THEN {}
    ELSE {expr} \cup UNION {ExprNodes(expr.args[k]) : k \in 1..Len(expr.args)}

\* The expression nodes of a statement and of the statements in it.
RECURSIVE StmtExprNodes(_)
StmtExprNodes(stmt) ==
    ExprNodes(stmt.expr) \cup UNION {StmtExprNodes(stmt.statements[k]) : k \in 1..Len(stmt.statements)}

\* The expression nodes of a program.
ProgramExprNodes(program) == UNION {StmtExprNodes(program[i].body) : i \in 1..Len(program)}

\* The parameter count of the function a call of the name resolves to in a
\* program the type checker accepted: the built-in print or the function
\* of the program with that name.
CalleeParamCount(program, name) ==
    IF name = "print" THEN 1
    ELSE Len(program[CHOOSE i \in 1..Len(program) : program[i].name = name].params)

\* Every call node has as many arguments as its callee has parameters.
CallArityMatches(program) ==
    \A e \in ProgramExprNodes(program) :
        e.kind = "EXPR_CALL" => Len(e.args) = CalleeParamCount(program, e.name)

\* C24: for every program the type checker accepts, every expression node
\* of the AST has type int or bool, never void, calls of the built-in print
\* as expression statements or initialisers included, and every call node
\* has as many arguments as the function it resolves to has parameters.
C24_TypedExpressions ==
    tc.pc = "returned" /\ tc.ok =>
        /\ \A e \in ProgramExprNodes(tc.program) : e.type \in {type_int, type_bool}
        /\ CallArityMatches(tc.program)

\* ---- lexical scoping, stated on the AST ----

\* A block of the statement declares a name twice among its own
\* statements.
RECURSIVE RedeclaresInScope(_)
RedeclaresInScope(stmt) ==
    \/ /\ stmt.kind = "STMT_BLOCK"
       /\ \E j, k \in 1..Len(stmt.statements) :
              /\ j < k
              /\ stmt.statements[j].kind = "STMT_VAR_DECL"
              /\ stmt.statements[k].kind = "STMT_VAR_DECL"
              /\ stmt.statements[j].name = stmt.statements[k].name
    \/ \E k \in 1..Len(stmt.statements) : RedeclaresInScope(stmt.statements[k])

\* The names of a program and of the built-in.
NamesOf(program) ==
    {"print"}
    \cup {program[i].name : i \in 1..Len(program)}
    \cup UNION {{program[i].params[j].name : j \in 1..Len(program[i].params)} : i \in 1..Len(program)}
    \cup {"x", "f"}

\* What a name is bound to: nothing, a function, or a variable of a type.
Unbound == [bound |-> FALSE, is_function |-> FALSE, type |-> type_void]

FunctionBinding == [bound |-> TRUE, is_function |-> TRUE, type |-> type_void]

VariableBinding(type) == [bound |-> TRUE, is_function |-> FALSE, type |-> type]

\* The bindings in force where the body of function i begins: the
\* functions, hidden by the parameters (of two parameters with one name the
\* first, see C25).
BindingsAtBody(program, i) ==
    LET params == program[i].params
        named(n) == {j \in 1..Len(params) : params[j].name = n}
    IN [n \in NamesOf(program) |->
           IF named(n) /= {}
           THEN VariableBinding(params[CHOOSE j \in named(n) : \A k \in named(n) : j <= k].type)
           ELSE IF n = "print" \/ \E k \in 1..Len(program) : program[k].name = n
           THEN FunctionBinding
           ELSE Unbound]

\* Every variable node of the expression carries the type of the variable
\* its name is bound to, and every call names a function.
UsesAgree(env, expr) ==
    \A e \in ExprNodes(expr) :
        /\ e.kind = "EXPR_VAR" => env[e.name] = VariableBinding(e.type)
        /\ e.kind = "EXPR_CALL" => env[e.name] = FunctionBinding

\* The typed statements from statement i on agree with lexical scoping
\* under the bindings env: a declaration binds its name from there to the
\* end of its block, a block leaves the bindings after it as they were
\* before it.
RECURSIVE LexicallyScoped(_, _, _)
LexicallyScoped(env, statements, i) ==
    IF i > Len(statements) THEN TRUE
    ELSE LET stmt == statements[i] IN
         /\ UsesAgree(env, stmt.expr)
         /\ stmt.kind = "STMT_ASSIGN" => env[stmt.name] = VariableBinding(stmt.expr.type)
         /\ stmt.kind = "STMT_BLOCK" => LexicallyScoped(env, stmt.statements, 1)
         /\ stmt.kind \in {"STMT_IF", "STMT_WHILE"} =>
                \A k \in 1..Len(stmt.statements) : LexicallyScoped(env, <<stmt.statements[k]>>, 1)
         /\ LexicallyScoped(IF stmt.kind = "STMT_VAR_DECL"
                            THEN [env EXCEPT ![stmt.name] = VariableBinding(stmt.type)]
                            ELSE env,
                            statements, i + 1)

NoSourceCodeProvided ==
    <<"N", "o", " ", "s", "o", "u", "r", "c", "e", " ", "c", "o", "d", "e",
      " ", "p", "r", "o", "v", "i", "d", "e", "d">>

\* "Lexer error at line " (compiler_lexer_event, the fixed part before the position).
LexerErrorAtLine ==
    <<"L", "e", "x", "e", "r", " ", "e", "r", "r", "o", "r", " ", "a", "t",
      " ", "l", "i", "n", "e", " ">>

\* "Failed to store tokens in context" (compiler_lexer_event).
FailedToStoreTokens ==
    <<"F", "a", "i", "l", "e", "d", " ", "t", "o", " ", "s", "t", "o", "r",
      "e", " ", "t", "o", "k", "e", "n", "s", " ", "i", "n", " ", "c", "o",
      "n", "t", "e", "x", "t">>

\* "No tokens provided to parser" (compiler_parser_event).
NoTokensProvided ==
    <<"N", "o", " ", "t", "o", "k", "e", "n", "s", " ", "p", "r", "o", "v",
      "i", "d", "e", "d", " ", "t", "o", " ", "p", "a", "r", "s", "e", "r">>

\* "Parser failed: " (compiler_parser_event, the fixed part before the error of the parser).
ParserFailed ==
    <<"P", "a", "r", "s", "e", "r", " ", "f", "a", "i", "l", "e", "d", ":",
      " ">>

\* "Failed to store AST in context" (compiler_parser_event).
FailedToStoreAst ==
    <<"F", "a", "i", "l", "e", "d", " ", "t", "o", " ", "s", "t", "o", "r",
      "e", " ", "A", "S", "T", " ", "i", "n", " ", "c", "o", "n", "t", "e",
      "x", "t">>

\* "No AST provided to type checker" (compiler_type_checker_event).
NoAstForTypeChecker ==
    <<"N", "o", " ", "A", "S", "T", " ", "p", "r", "o", "v", "i", "d", "e",
      "d", " ", "t", "o", " ", "t", "y", "p", "e", " ", "c", "h", "e", "c",
      "k", "e", "r">>

\* "No AST provided to code generator" (compiler_codegen_event).
NoAstForCodeGen ==
    <<"N", "o", " ", "A", "S", "T", " ", "p", "r", "o", "v", "i", "d", "e",
      "d", " ", "t", "o", " ", "c", "o", "d", "e", " ", "g", "e", "n", "e",
      "r", "a", "t", "o", "r">>

\* "Unsupported code generation target" (compiler_codegen_event).
UnsupportedTarget ==
    <<"U", "n", "s", "u", "p", "p", "o", "r", "t", "e", "d", " ", "c", "o",
      "d", "e", " ", "g", "e", "n", "e", "r", "a", "t", "i", "o", "n", " ",
      "t", "a", "r", "g", "e", "t">>

\* "Failed to store output code in context" (compiler_codegen_event).
FailedToStoreOutput ==
    <<"F", "a", "i", "l", "e", "d", " ", "t", "o", " ", "s", "t", "o", "r",
      "e", " ", "o", "u", "t", "p", "u", "t", " ", "c", "o", "d", "e", " ",
      "i", "n", " ", "c", "o", "n", "t", "e", "x", "t">>

LexerName == <<"L", "e", "x", "e", "r">>

ParserName == <<"P", "a", "r", "s", "e", "r">>

TypeCheckerName == <<"T", "y", "p", "e", "C", "h", "e", "c", "k", "e", "r">>

CodeGenName == <<"C", "o", "d", "e", "G", "e", "n">>

\* event_chain_create_with_detail(mode, detail_level).
event_chain_create_with_detail(mode, detail_level) ==
    [events |-> <<>>, event_capacity |-> 0,
     middleware_count |-> 0, middleware_capacity |-> 0,
     fault_tolerance |-> mode, error_detail_level |-> detail_level,
     failure_handler |-> NULL, is_executing |-> 0]

\* The chain after the four event_chain_add_event calls of a driver and its
\* event_chain_set_failure_handler call, if any.  The four events fit
\* EVENTCHAINS_MAX_EVENTS of the source (1024).
CompilerChain(mode, detail_level, handler) ==
    [event_chain_create_with_detail(mode, detail_level) EXCEPT
        !.events = <<chainable_event_create(LexerName), chainable_event_create(ParserName),
                     chainable_event_create(TypeCheckerName), chainable_event_create(CodeGenName)>>,
        !.event_capacity = 4,
        !.failure_handler = handler]

SourceClasses == {"unexpected_character", "syntax_error", "type_error", "well_typed"}

Payload(object, of, by, begins) == [object |-> object, of |-> of, by |-> by, begins |-> begins]

\* The NULL payload.
NoPayload == Payload("NULL", "", "", "")

\* The source text the driver stores under "source_code", with cleanup free.
SourceCode(class) == Payload("source", class, "strdup", "")

\* enum CodeGenTarget: the target for the IR, the target for C, and one of
\* the targets no generator exists for.
CodeGenTargets == {"TARGET_TINYLLVM", "TARGET_C", "TARGET_RUST"}

\* The user_data of the CodeGen event: NULL or a CompilerConfig.
NoConfig == [target |-> "NULL", emit_comments |-> FALSE]

Configs == {NoConfig} \cup [target : CodeGenTargets, emit_comments : BOOLEAN]

\* lex_source(source_code): the token list.
TokensOf(source_code) == Payload("TokenList", source_code.of, "lex_source", "")

\* compiler_lexer_event, "Check for lexer errors": a token of the list is
\* an ERROR token.
HasErrorToken(tokens) == tokens.of = "unexpected_character"

\* parse_tokens(tokens, error_msg, size): the program, NULL on a syntax
\* error.
parse_tokens(tokens) ==
    IF tokens.of = "syntax_error" THEN NoPayload
    ELSE Payload("ASTProgram", tokens.of, "parse_tokens", "")

\* type_check_program(program, error_msg, size): its return value.
TypeChecks(program) == program.of = "well_typed"

\* generate_c_code(program, config): the text, with its first line.
generate_c_code(program, config) ==
    Payload("text", program.of, "generate_c_code",
            IF config /= NoConfig /\ config.emit_comments
            THEN "/* Generated by TinyLLVM Compiler */"
            ELSE "#include <stdio.h>")

\* generate_ir_code(program, config): the text, with its first line.
generate_ir_code(program, config) ==
    Payload("text", program.of, "generate_ir_code",
            IF config /= NoConfig /\ config.emit_comments
            THEN "; Generated by TinyLLVM Compiler"
            ELSE "declare void @print(i32)")

\* event_context_get(context, key, &value) on the context of the chain:
\* the payload, NULL for a key that is not there.
PipelineGet(context, key) ==
    IF key \in DOMAIN context THEN context[key].payload ELSE NoPayload

\* What a set on the context of the chain returns.
SetErrors == {"SUCCESS", "MEMORY_LIMIT_EXCEEDED", "CAPACITY_EXCEEDED"}

\* event_context_set_with_cleanup(context, key, value, cleanup) on the
\* context of the chain, returning err: the context it leaves and the
\* payloads it called a cleanup on.  A set of an existing key releases the
\* old value; a set refused for the capacity releases the new one.
PipelineSet(context, key, value, cleanup, err) ==
    IF err = "SUCCESS"
    THEN [err |-> err,
          context |-> With(context, key, [payload |-> value, cleanup |-> cleanup]),
          freed |-> IF key \in DOMAIN context /\ context[key].cleanup /= NULL
                    THEN <<context[key].payload>> ELSE <<>>]
    ELSE [err |-> err,
          context |-> context,
          freed |-> IF err = "CAPACITY_EXCEEDED" /\ cleanup /= NULL THEN <<value>> ELSE <<>>]

\* What a compiler event leaves: its EventResult, the context, and the
\* payloads that were freed during the call, by a cleanup of the context or
\* by the event.
PhaseResult(result, context, freed) == [result |-> result, context |-> context, freed |-> freed]

EventFailure_clears_context(context, error_message, error_code, freed) ==
    PhaseResult(event_result_failure(error_message, error_code, "ERROR_DETAIL_FULL"), NoKeys, freed)

\* A failure return of a compiler event: event_result_failure with
\* ERROR_DETAIL_FULL, the context as the event found it.
EventFailure(context, error_message, error_code, freed) ==
    PhaseResult(event_result_failure(error_message, error_code, "ERROR_DETAIL_FULL"), context, freed)

compiler_lexer_event(context, set_err) ==
    LET source_code == PipelineGet(context, "source_code")
        tokens == TokensOf(source_code)
        set == PipelineSet(context, "tokens", tokens, "token_list_destroy", set_err)
    IN
    IF source_code = NoPayload
    THEN EventFailure(context, NoSourceCodeProvided, "INVALID_PARAMETER", <<>>)
    ELSE IF HasErrorToken(tokens)
    THEN EventFailure(context, LexerErrorAtLine, "INVALID_PARAMETER", <<tokens>>)
    ELSE IF set.err /= "SUCCESS"
    THEN EventFailure(context, FailedToStoreTokens, set.err, Append(set.freed, tokens))
    ELSE PhaseResult(event_result_success, set.context, set.freed)

compiler_parser_event(context, set_err) ==
    LET tokens == PipelineGet(context, "tokens")
        program == parse_tokens(tokens)
        set == PipelineSet(context, "ast", program, "ast_program_destroy", set_err)
    IN
    IF tokens = NoPayload
    THEN EventFailure(context, NoTokensProvided, "INVALID_PARAMETER", <<>>)
    ELSE IF program = NoPayload
    THEN EventFailure(context, ParserFailed, "INVALID_PARAMETER", <<>>)
    ELSE IF set.err /= "SUCCESS"
    THEN EventFailure(context, FailedToStoreAst, set.err, Append(set.freed, program))
    ELSE PhaseResult(event_result_success, set.context, set.freed)

compiler_type_checker_event(context) ==
    LET program == PipelineGet(context, "ast") IN
    IF program = NoPayload
    THEN EventFailure(context, NoAstForTypeChecker, "INVALID_PARAMETER", <<>>)
    ELSE IF ~TypeChecks(program)
    THEN EventFailure(context, TypeCheckingFailed, "INVALID_PARAMETER", <<>>)
    ELSE PhaseResult(event_result_success, context, <<>>)

compiler_codegen_event(context, config, set_err) ==
    LET program == PipelineGet(context, "ast")
        output == generate_c_code(program, config)
        set == PipelineSet(context, "output_code", output, "free", set_err)
    IN
    IF program = NoPayload
    THEN EventFailure(context, NoAstForCodeGen, "INVALID_PARAMETER", <<>>)
    ELSE IF ~(config = NoConfig \/ config.target = "TARGET_C" \/ config.target = "TARGET_TINYLLVM")
    THEN EventFailure(context, UnsupportedTarget, "INVALID_PARAMETER", <<>>)
    ELSE IF set.err /= "SUCCESS"
    THEN EventFailure(context, FailedToStoreOutput, set.err, Append(set.freed, output))
    ELSE PhaseResult(event_result_success, set.context, set.freed)

\* A payload was freed twice.
DoubleFree(freed) == \E j, k \in 1..Len(freed) : j < k /\ freed[j] = freed[k]

\* A driver has created the chain, registered the four events and stored
\* the source text, or nothing, in the context of the chain.
InitCompile ==
    /\ InitContext
    /\ exec = NotExecuting
    /\ threads = NoThreads
    /\ lex = [pc |-> "none"]
    /\ tc = [pc |-> "none"]
    /\ \E mode \in FaultToleranceModes, detail_level \in ErrorDetailLevels,
          handler \in FailureHandlers :
           /\ handler /= NULL => mode = "CUSTOM"
           /\ chain = CompilerChain(mode, detail_level, handler)
    /\ \E config \in Configs,
          context \in {NoKeys} \cup {With(NoKeys, "source_code",
                                          [payload |-> SourceCode(class), cleanup |-> "free"]) :
                                     class \in SourceClasses} :
           comp = [pc |-> "ready", config |-> config, context |-> context, freed |-> <<>>]

compileFrame == <<values, held, cleaned, ctxVars, concVars, threads, lex, tc>>

\* The driver calls event_chain_execute on the chain.
CompileExecute ==
    /\ comp.pc = "ready"
    /\ event_chain_execute
    /\ comp' = [comp EXCEPT !.pc = "running"]
    /\ UNCHANGED compileFrame

\* Event i of the chain returns what phase says.  Freeing a payload twice
\* is undefined behaviour: the program stops there or goes on.
PhaseReturns(i, phase, survives) ==
    /\ comp.pc = "running"
    /\ exec.stack /= <<>>
    /\ Top(exec.stack).pc = "in_event"
    /\ Top(exec.stack).i = i
    /\ IF DoubleFree(phase.freed) /\ ~survives
       THEN /\ comp' = [comp EXCEPT !.pc = "crashed", !.freed = @ \o phase.freed]
            /\ exec' = [exec EXCEPT !.stack = ReplaceTop(@, [Top(@) EXCEPT !.pc = "crashed"])]
            /\ last' = Call("event", "CRASHED")
            /\ UNCHANGED chain
       ELSE /\ comp' = [comp EXCEPT !.context = phase.context, !.freed = @ \o phase.freed]
            /\ EventReturns(phase.result)
    /\ UNCHANGED compileFrame

\* The errors a set of the key may return in the context.
SetErrorsFor(context, key) ==
    IF key \in DOMAIN context THEN SetErrors \ {"CAPACITY_EXCEEDED"} ELSE SetErrors

LexerEvent ==
    \E set_err \in SetErrorsFor(comp.context, "tokens"), survives \in BOOLEAN :
        PhaseReturns(1, compiler_lexer_event(comp.context, set_err), survives)

ParserEvent ==
    \E set_err \in SetErrorsFor(comp.context, "ast"), survives \in BOOLEAN :
        PhaseReturns(2, compiler_parser_event(comp.context, set_err), survives)

TypeCheckerEvent ==
    /\ comp.pc = "running"
    /\ PhaseReturns(3, compiler_type_checker_event(comp.context), TRUE)

CodeGenEvent ==
    \E set_err \in SetErrorsFor(comp.context, "output_code"), survives \in BOOLEAN :
        PhaseReturns(4, compiler_codegen_event(comp.context, comp.config, set_err), survives)

\* event_chain_execute goes on after a compiler event has returned: with no
\* middleware, the result it reads is the one the event wrote.
CompileContinue ==
    /\ comp.pc = "running"
    /\ exec.stack /= <<>>
    /\ \E realloc_ok \in BOOLEAN, lands \in BOOLEAN :
           ExecuteContinues(Top(exec.stack).event_result, realloc_ok, lands)
    /\ UNCHANGED ctxFrame

NextCompile ==
    \/ CompileExecute \/ LexerEvent \/ ParserEvent \/ TypeCheckerEvent \/ CodeGenEvent
    \/ CompileContinue \/ HandlerReturn

SpecCompile == InitCompile /\ [][NextCompile]_vars


\* The failures event_chain_execute has recorded: those of the call under
\* way, or those of the result of the call that returned.
RecordedFailures ==
    IF exec.stack /= <<>> THEN Top(exec.stack).failures ELSE exec.result.failures

\* C21: for a chain created with detail_level = ERROR_DETAIL_MINIMAL, the
\* message of every failure recorded by event_chain_execute, those of the
\* four compiler events included, is "Error code: N" with N the error code
\* of the failure, as far as the message buffer holds it.
C21_MinimalDetailMessages ==
    comp.pc /= "none" /\ chain.error_detail_level = "ERROR_DETAIL_MINIMAL" =>
        \A j \in 1..Len(RecordedFailures) :
            RecordedFailures[j].error_message =
                ErrorCodeMessage(RecordedFailures[j].error_code, EVENTCHAINS_MAX_ERROR_LENGTH)

\* A step in which a compiler event returns a failure.
PhaseFails ==
    /\ comp.pc = "running"
    /\ exec.stack /= <<>>
    /\ Top(exec.stack).pc = "in_event"
    /\ exec'.stack /= <<>>
    /\ Top(exec'.stack).pc = "event_done"
    /\ ~Top(exec'.stack).event_result.success

\* Every key the context held before the step is there after it with the
\* same payload and cleanup, and no cleanup has been called on its payload.
PriorEntriesKept ==
    \A key \in DOMAIN comp.context :
        /\ key \in DOMAIN comp'.context
        /\ comp'.context[key] = comp.context[key]
        /\ \A j \in 1..Len(comp'.freed) : comp'.freed[j] /= comp.context[key].payload

\* C22: when a compiler phase fails, every context key written before the
\* phase ran (source_code and the outputs of the earlier phases) is still
\* present with the same payload, and its cleanup has not been invoked.
C22_PartialStateKept == [][PhaseFails => PriorEntriesKept]_vars

\* The Parser event has failed on a source with a syntax error, and the
\* context still holds the source and the token list, nothing freed.
C22_Witness ==
    /\ comp.pc = "running"
    /\ exec.stack /= <<>>
    /\ Top(exec.stack).pc = "event_done"
    /\ Top(exec.stack).i = 2
    /\ ~Top(exec.stack).event_result.success
    /\ DOMAIN comp.context = {"source_code", "tokens"}
    /\ comp.context["source_code"].payload = SourceCode("syntax_error")
    /\ comp.context["tokens"].payload = TokensOf(SourceCode("syntax_error"))
    /\ comp.freed = <<>>

\* C23: when the CodeGen event is given a configuration, the text under
\* output_code is the output of the IR generator if the target is the IR
\* target and the output of the C generator if the target is C.
C23_TargetText ==
    comp.pc /= "none" /\ comp.config /= NoConfig /\ "output_code" \in DOMAIN comp.context =>
        LET output == comp.context["output_code"].payload
            program == PipelineGet(comp.context, "ast")
        IN /\ comp.config.target = "TARGET_TINYLLVM" =>
                  output = generate_ir_code(program, comp.config)
           /\ comp.config.target = "TARGET_C" =>
                  output = generate_c_code(program, comp.config)

\* C28: in every fault mode, no execution of the compiler chain in which
\* the TypeChecker event failed ends with output_code in the context.
C28_NoOutputAfterTypeError ==
    /\ comp.pc = "running"
    /\ exec.stack = <<>>
    /\ exec.result.accepted
    /\ Len(exec.result.outcomes) >= 3
    /\ ~exec.result.outcomes[3].success
    => "output_code" \notin DOMAIN comp.context

====
